---- MODULE Spec2Model ----
(***************************************************************************)
(* Evaluation orchestration of ai-3d-fdm-eval: the entry point (index.ts), *)
(* the mesh runner, runEvaluation / runTask, the write_file tool bound to  *)
(* a task's output directory, and the validate pipeline of the tasks       *)
(* (artifact check, default-view render, bottom-view render).              *)
(* Strings are the strings of the source; optional fields of a TypeScript  *)
(* object are fields that are absent from the record's DOMAIN.             *)
(***************************************************************************)
EXTENDS Integers, Sequences, FiniteSets, TLC

(* ---------------------------- bounds ----------------------------------- *)

\* longest models list of models-config.json that is explored
MaxModels == 2
\* most task evaluations (models times tasks) of one mesh invocation that is
\* explored
MaxEvals == 2
\* the wall clock advances by at most this many seconds during the process
MaxClock == 1
MaxNamingCalls == 2
MaxToolCalls == 3

(* ---------------------------- values ----------------------------------- *)

\* JavaScript's undefined (an absent argument, an absent optional field)
Undefined == "<undefined>"

\* model identifiers found in the configuration / on the command line
Models == {"org/m1", "org-m1"}

\* task names that can be given on the command line ("bogus" is unregistered)
TaskArgs == {Undefined, "rivet", "trapezoidal-rivet", "bogus"}

\* what the renderer process can print
Stdouts == {"geometry ok", "cache hit"}
Stderrs == {"WARNING: deprecated"}
ExitCodes == {0, 1}

\* values the model client can throw: Error instances and other values
ModelThrowables ==
  { [isError |-> TRUE,  message |-> "429 rate limited"],
    [isError |-> FALSE, message |-> "aborted"] }

\* what the code of a task (createTools, validate) can throw
TaskThrowables ==
  { [isError |-> TRUE, message |-> "Cannot read properties of undefined"] }

\* the Error mkdir rejects with
MkdirError == [isError |-> TRUE, message |-> "EACCES: permission denied, mkdir"]

\* the faults that keep renderOpenSCAD from getting an exit code
SpawnErrors ==
  { [isError |-> TRUE, message |-> "Executable not found in $PATH: openscad"] }

Get(r, k) == IF k \in DOMAIN r THEN r[k] ELSE Undefined

(* ---------------------------- strings ---------------------------------- *)

\* modelName.replace("/", "-"): the first '/' only
ReplaceSlashes_FirstOnly(s) ==
  IF \E k \in 1..Len(s) : SubSeq(s, k, k) = "/"
  THEN LET i == CHOOSE k \in 1..Len(s) :
                  /\ SubSeq(s, k, k) = "/"
                  /\ \A j \in 1..(k - 1) : SubSeq(s, j, j) # "/"
       IN SubSeq(s, 1, i - 1) \o "-" \o SubSeq(s, i + 1, Len(s))
  ELSE s

RECURSIVE ReplaceSlashes(_)
\* modelName.replace(/\//g, "-")
ReplaceSlashes(s) ==
  IF Len(s) = 0 THEN ""
  ELSE (IF SubSeq(s, 1, 1) = "/" THEN "-" ELSE SubSeq(s, 1, 1))
         \o ReplaceSlashes(SubSeq(s, 2, Len(s)))

\* String(n).padStart(2, "0")
PadStart2(n) == IF n < 10 THEN "0" \o ToString(n) ELSE ToString(n)

\* s contains sub as a substring
Contains(s, sub) ==
  \E i \in 1..(Len(s) - Len(sub) + 1) : SubSeq(s, i, i + Len(sub) - 1) = sub

\* path.join of simple segments
Join(a, b) == a \o "/" \o b

\* path.isAbsolute
IsAbsolute(p) == Len(p) > 0 /\ SubSeq(p, 1, 1) = "/"

\* new Date() at clock tick c: the process starts at 2026-01-13 23:59:59
Now(c) ==
  LET secs == 59 + c
      mins == 59 + (secs \div 60)
      hrs  == 23 + (mins \div 60)
  IN  [year |-> 2026, month |-> 1, day |-> 13 + (hrs \div 24),
       hours |-> hrs % 24, minutes |-> mins % 60, seconds |-> secs % 60]

generateRunDirectoryName(modelName, now) ==
  "run-" \o ToString(now.year) \o PadStart2(now.month) \o PadStart2(now.day)
    \o "-" \o PadStart2(now.hours) \o PadStart2(now.minutes)
    \o PadStart2(now.seconds) \o "-" \o ReplaceSlashes(modelName)

(* ---------------------------- task registry ---------------------------- *)

\* the task files of evals/tasks in readdir order, by exported task name
TaskNames == <<"rivet", "trapezoidal-rivet">>

getTaskNames == TaskNames

\* a registry in which every name counts as registered
hasTask_Any(name) == TRUE

hasTask(name) == \E i \in 1..Len(TaskNames) : TaskNames[i] = name

\* the file names a task's validate declares
ScadName(task) == task \o ".scad"
PngName(task) == task \o ".png"
PngBottomName(task) == task \o "-bottom.png"

(* ---------------------------- renderer --------------------------------- *)

\* what one invocation of the external renderer can do: the wrapper fails
\* before it has an exit code, or the process exits with a status, having
\* printed something and having written the output file or not (the second
\* text is printed by a render that exits with 0 and writes its file)
RenderOutcomes ==
  {o \in [kind : {"exit"}, exitCode : ExitCodes, stdout : Stdouts,
          stderr : Stderrs, wrote : BOOLEAN] :
     o.stdout = "cache hit" => (o.exitCode = 0 /\ o.wrote)}
  \cup [kind : {"throw"}, error : SpawnErrors]

\* the message read off whatever was caught
CaughtMessage_NoFallback(error) == error.message

\* the message of a caught value
CaughtMessage(error) ==
  IF error.isError THEN error.message ELSE "Unknown error"

\* a wrapper that takes every exit of the process for a success
renderOpenSCAD_IgnoresExitCode(o) ==
  IF o.kind = "throw"
  THEN [success |-> FALSE, error |-> CaughtMessage(o.error)]
  ELSE [success |-> TRUE, stdout |-> o.stdout, stderr |-> o.stderr]

\* the value renderOpenSCAD resolves to for an outcome of the renderer
renderOpenSCAD(o) ==
  IF o.kind = "throw"
  THEN [success |-> FALSE, error |-> CaughtMessage(o.error)]
  ELSE IF o.exitCode = 0
  THEN [success |-> TRUE, stdout |-> o.stdout, stderr |-> o.stderr]
  ELSE [success |-> FALSE,
        error |-> "OpenSCAD process exited with code " \o ToString(o.exitCode),
        stdout |-> o.stdout, stderr |-> o.stderr]

\* the files on disk after the renderer ran with output path outputFile
FsAfterRender(files, o, outputFile) ==
  IF o.kind = "exit" /\ o.wrote THEN files \cup {outputFile} ELSE files

(* ---------------------------- validate --------------------------------- *)

\* existsSync with the check left out
existsSync_Always(files, path) == TRUE

\* fs.existsSync(path), files the paths that exist
existsSync(files, path) == path \in files

\* the TaskResults that validate returns, one per terminal state

MissingArtifactResult(task, dir) ==
  [taskName |-> task, success |-> FALSE,
   error |-> ScadName(task) \o " file was not created",
   outputPath |-> dir]

\* the default view's failure reported with the bottom view's message and key
RenderFailedDefaultResult_AsBottom(task, dir, rr) ==
  [taskName |-> task, success |-> FALSE,
   error |-> "Failed to render OpenSCAD file (bottom isometric view): "
               \o Get(rr, "error"),
   outputPath |-> dir,
   metadata |->
     [bottomView |-> [success |-> FALSE, stdout |-> Get(rr, "stdout"),
                      stderr |-> Get(rr, "stderr")]]]

RenderFailedDefaultResult(task, dir, rr) ==
  [taskName |-> task, success |-> FALSE,
   error |-> "Failed to render OpenSCAD file (default view): " \o Get(rr, "error"),
   outputPath |-> dir,
   metadata |-> [stdout |-> Get(rr, "stdout"), stderr |-> Get(rr, "stderr")]]

OutputMissingDefaultResult(task, dir, rr) ==
  [taskName |-> task, success |-> FALSE,
   error |-> "PNG file was not generated despite successful render (default view)",
   outputPath |-> dir,
   metadata |-> [stdout |-> Get(rr, "stdout"), stderr |-> Get(rr, "stderr")]]

\* the bottom view's failure with stdout and stderr exchanged
RenderFailedBottomResult_Swapped(task, dir, rb) ==
  [taskName |-> task, success |-> FALSE,
   error |-> "Failed to render OpenSCAD file (bottom isometric view): "
               \o Get(rb, "error"),
   outputPath |-> dir,
   metadata |->
     [defaultView |-> [success |-> TRUE, file |-> Join(dir, PngName(task))],
      bottomView |-> [success |-> FALSE, stdout |-> Get(rb, "stderr"),
                      stderr |-> Get(rb, "stdout")]]]

RenderFailedBottomResult(task, dir, rb) ==
  [taskName |-> task, success |-> FALSE,
   error |-> "Failed to render OpenSCAD file (bottom isometric view): "
               \o Get(rb, "error"),
   outputPath |-> dir,
   metadata |->
     [defaultView |-> [success |-> TRUE, file |-> Join(dir, PngName(task))],
      bottomView |-> [success |-> FALSE, stdout |-> Get(rb, "stdout"),
                      stderr |-> Get(rb, "stderr")]]]

\* the missing bottom png let through as a success
OutputMissingBottomResult_AsSuccess(task, dir, rb) ==
  [taskName |-> task, success |-> TRUE, outputPath |-> dir,
   metadata |->
     [defaultView |-> [success |-> TRUE, file |-> Join(dir, PngName(task))],
      bottomView |-> [success |-> TRUE, stdout |-> Get(rb, "stdout"),
                      stderr |-> Get(rb, "stderr")]]]

\* the missing bottom png reported with the render failure's message
OutputMissingBottomResult_AsRenderFailed(task, dir, rb) ==
  [taskName |-> task, success |-> FALSE,
   error |-> "Failed to render OpenSCAD file (bottom isometric view): "
               \o Get(rb, "error"),
   outputPath |-> dir,
   metadata |->
     [defaultView |-> [success |-> TRUE, file |-> Join(dir, PngName(task))],
      bottomView |-> [success |-> FALSE, stdout |-> Get(rb, "stdout"),
                      stderr |-> Get(rb, "stderr")]]]

OutputMissingBottomResult(task, dir, rb) ==
  [taskName |-> task, success |-> FALSE,
   error |-> "PNG file was not generated despite successful render (bottom isometric view)",
   outputPath |-> dir,
   metadata |->
     [defaultView |-> [success |-> TRUE, file |-> Join(dir, PngName(task))],
      bottomView |-> [success |-> FALSE, stdout |-> Get(rb, "stdout"),
                      stderr |-> Get(rb, "stderr")]]]

\* the success metadata with the two views' output exchanged
SuccessResult_SwappedViews(task, dir, rr, rb) ==
  [taskName |-> task, success |-> TRUE, outputPath |-> dir,
   metadata |->
     [scadFile |-> Join(dir, ScadName(task)),
      pngFile |-> Join(dir, PngName(task)),
      pngBottomFile |-> Join(dir, PngBottomName(task)),
      defaultView |-> [success |-> TRUE, stdout |-> Get(rb, "stdout"),
                       stderr |-> Get(rb, "stderr")],
      bottomView |-> [success |-> TRUE, stdout |-> Get(rr, "stdout"),
                      stderr |-> Get(rr, "stderr")]]]

SuccessResult(task, dir, rr, rb) ==
  [taskName |-> task, success |-> TRUE, outputPath |-> dir,
   metadata |->
     [scadFile |-> Join(dir, ScadName(task)),
      pngFile |-> Join(dir, PngName(task)),
      pngBottomFile |-> Join(dir, PngBottomName(task)),
      defaultView |-> [success |-> TRUE, stdout |-> Get(rr, "stdout"),
                       stderr |-> Get(rr, "stderr")],
      bottomView |-> [success |-> TRUE, stdout |-> Get(rb, "stdout"),
                      stderr |-> Get(rb, "stderr")]]]

\* the catch block's result without its error
CaughtResult_NoError(task, dir, error) ==
  [taskName |-> task, success |-> FALSE, outputPath |-> dir]

\* the TaskResult of runTask's catch block
CaughtResult(task, dir, error) ==
  [taskName |-> task, success |-> FALSE, error |-> CaughtMessage(error),
   outputPath |-> dir]

(* ---------------------------- entry point ------------------------------ *)

\* process.argv.slice(2) of the explored invocations
Argvs ==
  {<<>>} \cup {<<m>> : m \in Models}
    \cup {<<m, t>> : m \in Models, t \in TaskArgs \ {Undefined}}
    \cup {<<"--mesh">>, <<"--mesh", "--verbose">>}
    \cup {<<"--mesh", t>> : t \in TaskArgs \ {Undefined}}
    \cup {<<"--mesh", "rivet", t>> : t \in {"rivet", "bogus"}}

IsFlag(arg) == Len(arg) > 0 /\ SubSeq(arg, 1, 1) = "-"

RECURSIVE ParseFrom(_, _, _)
\* the loop of parseArgs from index i on, acc the values assigned so far
ParseFrom(args, i, acc) ==
  IF i > Len(args) THEN acc
  ELSE LET arg == args[i] IN
    IF arg = "--mesh" THEN ParseFrom(args, i + 1, [acc EXCEPT !.meshMode = TRUE])
    ELSE IF arg = "--verbose" \/ arg = "-v"
    THEN ParseFrom(args, i + 1, [acc EXCEPT !.verbose = TRUE])
    ELSE IF ~IsFlag(arg)
    THEN IF acc.modelName = Undefined
         THEN ParseFrom(args, i + 1, [acc EXCEPT !.modelName = arg])
         ELSE IF acc.taskName = Undefined
         THEN ParseFrom(args, i + 1, [acc EXCEPT !.taskName = arg])
         ELSE ParseFrom(args, i + 1, acc)
    ELSE ParseFrom(args, i + 1, acc)

parseArgs(args) ==
  ParseFrom(args, 1, [meshMode |-> FALSE, modelName |-> Undefined,
                      taskName |-> Undefined, verbose |-> FALSE])

\* the lists of models a models-config.json holds
ModelLists ==
  UNION {[1..n -> Models] : n \in 0..MaxModels}

\* no models-config.json
NoConfigFile ==
  [present |-> FALSE, parses |-> FALSE, hasModels |-> FALSE, models |-> <<>>]

\* models-config.json: absent, text that is not JSON, JSON without the
\* property models, or JSON with a models list
ConfigFiles ==
  {NoConfigFile,
   [present |-> TRUE, parses |-> FALSE, hasModels |-> FALSE, models |-> <<>>],
   [present |-> TRUE, parses |-> TRUE, hasModels |-> FALSE, models |-> <<>>]}
    \cup {[present |-> TRUE, parses |-> TRUE, hasModels |-> TRUE, models |-> l] :
            l \in ModelLists}

\* join(process.cwd(), "models-config.json")
ConfigPath == Join("/app", "models-config.json")

\* the messages of the SyntaxError of JSON.parse and of the TypeError of
\* reading config.models.length when config.models is undefined
JsonParseMessage == "JSON Parse error: Unexpected identifier"
NoModelsMessage == "undefined is not an object (evaluating 'config.models.length')"

\* a loader that takes a missing or unreadable file for an empty list
loadModelsConfig_Default(file) ==
  [threw |-> FALSE,
   value |-> IF file.present /\ file.parses THEN file ELSE
               [present |-> TRUE, parses |-> TRUE, hasModels |-> TRUE, models |-> <<>>]]

\* loadModelsConfig() when models-config.json is file
loadModelsConfig(file) ==
  IF ~file.present
  THEN [threw |-> TRUE,
        message |-> "Models configuration not found at: " \o ConfigPath]
  ELSE IF ~file.parses
  THEN [threw |-> TRUE,
        message |-> "Failed to load models config: " \o JsonParseMessage]
  ELSE [threw |-> FALSE, value |-> file]

\* runEvaluation's tasksToRun for a taskName argument
TasksOf(t) == IF t # Undefined THEN <<t>> ELSE getTaskNames

(* ---------------------------- state ------------------------------------ *)

VARIABLES
  argv,          \* the command line
  apiKey,        \* OPENROUTER_API_KEY is set
  configFile,    \* models-config.json
  fs,            \* the files that exist, by path
  clock,         \* seconds since the process started
  pc,            \* where the process is
  exited,        \* <<>> while running, <<code>> once the process has ended
  taskName,      \* runEvaluation's / runMeshEvaluation's taskName argument
  mi,            \* runMeshEvaluation: index of the model in config.models
  allResults,    \* runMeshEvaluation: the MeshResults
  modelName,     \* runEvaluation's modelName argument
  tasksToRun,    \* runEvaluation
  ti,            \* runEvaluation: index of the task in tasksToRun
  runDir,        \* runEvaluation
  results,       \* runEvaluation: the TaskResults
  outputDir,     \* runTask
  tools,         \* runTask: the working directory its tools are bound to
  steps,         \* runTask: the steps it has performed, in order
  validated,     \* runTask invoked task.validate
  caught,        \* runTask: the value its catch block caught
  renderResult,        \* validate
  renderBottomResult,  \* validate
  returnedAt,    \* the return statement the last runTask ended at
  rendererLog,   \* the renderer invocations of the current runTask
  taskLog,       \* every runTask so far: model, task, output directory, outcome
  configReads,   \* runMeshEvaluation: the reads of models-config.json so far
  meshError,     \* the error runMeshEvaluation threw before its loop
  disk,          \* direct use of the tools: the directories and the files
  tasksDir,      \* direct use of the registry: the directory evals/tasks
  calls          \* direct use of the exported functions: each call and its result

vars ==
  <<argv, apiKey, configFile, fs, clock, pc, exited, taskName, mi, allResults,
    modelName, tasksToRun, ti, runDir, results, outputDir, tools, steps,
    validated, caught, renderResult, renderBottomResult, returnedAt,
    rendererLog, taskLog, configReads, meshError, disk, tasksDir, calls>>

\* no render result yet
NoRender == [pending |-> TRUE]

\* nothing caught
NoError == [pending |-> TRUE]

\* an empty disk
NoDisk == [dirs |-> {}, files |-> <<>>]

\* no tasks directory
NoTasksDir == [present |-> FALSE, files |-> <<>>]

inputVars == <<argv, apiKey, configFile>>
configVars == <<configReads, meshError>>
directVars == <<disk, tasksDir, calls>>
meshVars == <<mi, allResults>>
evalVars == <<modelName, tasksToRun, ti, runDir, results>>
taskVars ==
  <<outputDir, tools, steps, validated, caught, renderResult,
    renderBottomResult, returnedAt, rendererLog>>

Init ==
  /\ argv \in Argvs
  /\ apiKey \in BOOLEAN
  /\ configFile \in
       (IF parseArgs(argv).meshMode
        THEN {c \in ConfigFiles :
                Len(c.models) * Len(TasksOf(parseArgs(argv).taskName)) <= MaxEvals}
        ELSE {NoConfigFile})
  /\ fs = {}
  /\ clock = 0
  /\ pc = "main"
  /\ exited = <<>>
  /\ taskName = Undefined
  /\ mi = 0
  /\ allResults = <<>>
  /\ modelName = Undefined
  /\ tasksToRun = <<>>
  /\ ti = 0
  /\ runDir = Undefined
  /\ results = <<>>
  /\ outputDir = Undefined
  /\ tools = Undefined
  /\ steps = <<>>
  /\ validated = FALSE
  /\ caught = NoError
  /\ renderResult = NoRender
  /\ renderBottomResult = NoRender
  /\ returnedAt = Undefined
  /\ rendererLog = <<>>
  /\ taskLog = <<>>
  /\ configReads = 0
  /\ meshError = Undefined
  /\ disk = NoDisk
  /\ tasksDir = NoTasksDir
  /\ calls = <<>>

(* ---------------------------- mesh runner ------------------------------ *)

\* runModelEval's taskLabel
TaskLabel(t) == IF t # Undefined THEN t ELSE "all tasks"

MeshSuccess(model, t) ==
  [model |-> model, task |-> TaskLabel(t), success |-> TRUE]

MeshFailure(model, t, errorMsg) ==
  [model |-> model, task |-> TaskLabel(t), success |-> FALSE,
   error |-> errorMsg]

\* the predicates of allResults.filter
IsSuccess(r) == r.success
IsFailure(r) == ~r.success

\* what printSummary reports
printSummary(rs) ==
  [total |-> Len(rs),
   successful |-> Len(SelectSeq(rs, IsSuccess)),
   failed |-> Len(SelectSeq(rs, IsFailure)),
   failedEvaluations |-> SelectSeq(rs, IsFailure)]

\* a test that looks at the last result only
hasFailures_LastOnly(rs) == rs # <<>> /\ ~rs[Len(rs)].success

\* allResults.some((r) => !r.success)
hasFailures(rs) == \E i \in 1..Len(rs) : ~rs[i].success

(* ---------------------------- actions ---------------------------------- *)

\* main(): parse the command line; without --mesh and without a model name
\* print the usage and exit 1
Main ==
  /\ pc = "main"
  /\ LET a == parseArgs(argv) IN
       IF a.meshMode
       THEN /\ pc' = "mesh_start"
            /\ taskName' = a.taskName
            /\ UNCHANGED <<exited, modelName>>
       ELSE IF a.modelName = Undefined
       THEN /\ pc' = "done"
            /\ exited' = <<1>>
            /\ UNCHANGED <<taskName, modelName>>
       ELSE /\ pc' = "eval"
            /\ modelName' = a.modelName
            /\ taskName' = a.taskName
            /\ UNCHANGED exited
  /\ UNCHANGED <<inputVars, directVars, configVars, fs, clock, meshVars, tasksToRun, ti, runDir,
                 results, taskVars, taskLog>>

\* runMeshEvaluation up to its loop: loadModelsConfig reads the file and
\* throws when it is missing or is not JSON, and config.models.length throws
\* when it has no models; main's catch then exits 1
LoadModelsConfig ==
  /\ pc = "mesh_start"
  /\ configReads' = configReads + 1
  /\ LET config == loadModelsConfig(configFile) IN
       IF config.threw \/ ~config.value.hasModels
       THEN /\ pc' = "done"
            /\ exited' = <<1>>
            /\ meshError' = IF config.threw THEN config.message ELSE NoModelsMessage
            /\ mi' = mi
       ELSE /\ pc' = "mesh_loop"
            /\ mi' = 1
            /\ UNCHANGED <<exited, meshError>>
  /\ UNCHANGED <<inputVars, directVars, fs, clock, taskName, allResults, evalVars,
                 taskVars, taskLog>>

\* runMeshEvaluation's loop calls runModelEval, which calls runEvaluation
RunModelEval ==
  /\ pc = "mesh_loop"
  /\ mi <= Len(configFile.models)
  /\ modelName' = configFile.models[mi]
  /\ pc' = "eval"
  /\ UNCHANGED <<inputVars, directVars, configVars, fs, clock, exited, taskName, meshVars, tasksToRun,
                 ti, runDir, results, taskVars, taskLog>>

\* runEvaluation ended: its locals and those of runTask are gone
LeaveEvaluation ==
  /\ tasksToRun' = <<>>
  /\ ti' = 0
  /\ runDir' = Undefined
  /\ results' = <<>>
  /\ outputDir' = Undefined
  /\ tools' = Undefined
  /\ steps' = <<>>
  /\ validated' = FALSE
  /\ caught' = NoError
  /\ renderResult' = NoRender
  /\ renderBottomResult' = NoRender
  /\ returnedAt' = Undefined
  /\ rendererLog' = <<>>

\* runEvaluation throws message and nothing in runModelEval catches it: the
\* exception reaches main's catch, which exits 1
EvaluationThrows_AbortsMesh(message) ==
  /\ pc' = "done"
  /\ exited' = <<1>>
  /\ UNCHANGED meshVars
  /\ modelName' = Undefined
  /\ LeaveEvaluation

\* runEvaluation throws message: runModelEval's catch records a failed
\* MeshResult and the loop goes on; in single mode main's catch exits 1
EvaluationThrows(message) ==
  /\ IF parseArgs(argv).meshMode
     THEN /\ allResults' = Append(allResults, MeshFailure(modelName, taskName, message))
          /\ mi' = mi + 1
          /\ pc' = "mesh_loop"
          /\ exited' = exited
     ELSE /\ pc' = "done"
          /\ exited' = <<1>>
          /\ UNCHANGED meshVars
  /\ modelName' = Undefined
  /\ LeaveEvaluation

\* runEvaluation returns: runModelEval records a successful MeshResult; in
\* single mode main returns and the process ends with code 0
EvaluationReturns ==
  /\ IF parseArgs(argv).meshMode
     THEN /\ allResults' = Append(allResults, MeshSuccess(modelName, taskName))
          /\ mi' = mi + 1
          /\ pc' = "mesh_loop"
          /\ exited' = exited
     ELSE /\ pc' = "done"
          /\ exited' = <<0>>
          /\ UNCHANGED meshVars
  /\ modelName' = Undefined
  /\ LeaveEvaluation

\* a run that goes on without the credential
MissingApiKey_Ignored == FALSE

\* !apiKey of runEvaluation, apiKey being process.env.OPENROUTER_API_KEY
MissingApiKey == ~apiKey

\* the first task name of names that is not registered, 0 if all are
FirstUnknown(names) ==
  IF \A i \in 1..Len(names) : hasTask(names[i]) THEN 0
  ELSE CHOOSE i \in 1..Len(names) :
         ~hasTask(names[i]) /\ \A j \in 1..(i - 1) : hasTask(names[j])

RECURSIVE JoinComma(_)
\* names.join(", ")
JoinComma(names) ==
  IF names = <<>> THEN ""
  ELSE IF Len(names) = 1 THEN names[1]
  ELSE names[1] \o ", " \o JoinComma(Tail(names))

\* runEvaluation up to its task loop: the credential, the task names, the
\* run directory
RunEvaluationStart ==
  /\ pc = "eval"
  /\ IF MissingApiKey
     THEN /\ EvaluationThrows("OPENROUTER_API_KEY environment variable is not set")
          /\ UNCHANGED clock
     ELSE LET names == TasksOf(taskName)
              bad == FirstUnknown(names)
          IN IF bad # 0
             THEN /\ EvaluationThrows("Unknown task: " \o names[bad]
                        \o ". Available tasks: " \o JoinComma(getTaskNames))
                  /\ UNCHANGED clock
             ELSE \E c \in clock..MaxClock, mkdirOk \in BOOLEAN :
                    /\ clock' = c
                    /\ IF mkdirOk
                       THEN /\ runDir' = Join(Join("evals", "results"),
                                   generateRunDirectoryName(modelName, Now(c)))
                            /\ tasksToRun' = names
                            /\ ti' = 1
                            /\ results' = <<>>
                            /\ pc' = "task_loop"
                            /\ UNCHANGED <<exited, meshVars, modelName, taskVars>>
                       ELSE EvaluationThrows(CaughtMessage(MkdirError))
  /\ UNCHANGED <<inputVars, directVars, configVars, fs, taskName, taskLog>>

\* runTask returns result from the return statement at; runEvaluation
\* pushes it and goes to the next task
TaskReturns(result, at, threw) ==
  /\ results' = Append(results, result)
  /\ ti' = ti + 1
  /\ pc' = "task_loop"
  /\ returnedAt' = at
  /\ taskLog' = Append(taskLog, [model |-> modelName, task |-> tasksToRun[ti],
                                 dir |-> Join(runDir, tasksToRun[ti]),
                                 success |-> result.success, threw |-> threw])

\* tools that a task bound to a directory of its own when it was registered
createTools_BoundAtRegistration(task, workdir) ==
  Join(Join("evals", "results"), task)

\* the directory that the tools task.createTools(workdir) returns are bound
\* to
createTools(task, workdir) == workdir

\* runEvaluation's loop calls runTask without waiting for the validate of
\* the runTask before it
RunTaskStart_BeforeValidate ==
  /\ pc \in {"task_loop", "validate"}
  /\ ti <= Len(tasksToRun)
  /\ outputDir' = Join(runDir, tasksToRun[ti])
  /\ validated' = FALSE
  /\ renderResult' = NoRender
  /\ renderBottomResult' = NoRender
  /\ rendererLog' = <<>>
  /\ pc' = "model"
  /\ tools' = createTools(tasksToRun[ti], outputDir')
  /\ steps' = <<"mkdir", "createTools", "callModel">>
  /\ returnedAt' = Undefined
  /\ caught' = NoError
  /\ UNCHANGED <<inputVars, directVars, configVars, fs, clock, exited, taskName, meshVars, modelName,
                 tasksToRun, runDir, ti, results, taskLog>>

\* runEvaluation's loop calls runTask, which creates the output directory
\* and the tools and calls the model
RunTaskStart ==
  /\ pc = "task_loop"
  /\ ti <= Len(tasksToRun)
  /\ outputDir' = Join(runDir, tasksToRun[ti])
  /\ validated' = FALSE
  /\ renderResult' = NoRender
  /\ renderBottomResult' = NoRender
  /\ rendererLog' = <<>>
  /\ \E mkdirOk \in BOOLEAN :
       IF mkdirOk
       THEN /\ pc' = "model"
            /\ tools' = createTools(tasksToRun[ti], outputDir')
            /\ steps' = <<"mkdir", "createTools", "callModel">>
            /\ returnedAt' = Undefined
            /\ caught' = NoError
            /\ UNCHANGED <<ti, results, taskLog>>
       ELSE /\ tools' = Undefined
            /\ steps' = <<"mkdir">>
            /\ caught' = MkdirError
            /\ TaskReturns(CaughtResult(tasksToRun[ti], outputDir', MkdirError),
                           "caught", FALSE)
  /\ UNCHANGED <<inputVars, directVars, configVars, fs, clock, exited, taskName, meshVars, modelName,
                 tasksToRun, runDir>>

\* task.createTools(outputDir) throws after the output directory was made:
\* runTask's catch
CreateToolsThrows ==
  /\ pc = "task_loop"
  /\ ti <= Len(tasksToRun)
  /\ outputDir' = Join(runDir, tasksToRun[ti])
  /\ validated' = FALSE
  /\ renderResult' = NoRender
  /\ renderBottomResult' = NoRender
  /\ rendererLog' = <<>>
  /\ tools' = Undefined
  /\ steps' = <<"mkdir", "createTools">>
  /\ \E e \in TaskThrowables :
       /\ caught' = e
       /\ TaskReturns(CaughtResult(tasksToRun[ti], outputDir', e), "caught", FALSE)
  /\ UNCHANGED <<inputVars, directVars, configVars, fs, clock, exited, taskName, meshVars, modelName,
                 tasksToRun, runDir>>

\* the paths the model passes to write_file
ToolPaths(task) ==
  {ScadName(task), PngName(task), PngBottomName(task), "/tmp/" \o ScadName(task)}

\* createWriteFileTool(workdir).execute({path, content}) on files
writeFileTool(files, workdir, path) ==
  IF IsAbsolute(path) THEN files ELSE files \cup {Join(workdir, path)}

\* the model invokes write_file during the model call
ToolWrite ==
  /\ pc = "model"
  /\ \E path \in ToolPaths(tasksToRun[ti]) :
       fs' = writeFileTool(fs, tools, path)
  /\ UNCHANGED <<inputVars, directVars, configVars, clock, pc, exited, taskName, meshVars, evalVars,
                 taskVars, taskLog>>

\* response.getText() resolves
ModelReturns ==
  /\ pc = "model"
  /\ pc' = "validate"
  /\ steps' = Append(steps, "getText")
  /\ UNCHANGED <<inputVars, directVars, configVars, fs, clock, exited, taskName, meshVars, evalVars,
                 outputDir, tools, validated, caught, renderResult,
                 renderBottomResult, returnedAt, rendererLog, taskLog>>

\* the model client throws and nothing in runTask catches it: runEvaluation
\* ends with the exception
ModelThrows_Aborts ==
  /\ pc = "model"
  /\ \E e \in ModelThrowables : EvaluationThrows(CaughtMessage(e))
  /\ UNCHANGED <<inputVars, directVars, configVars, fs, clock, taskName, taskLog>>

\* the model client throws: runTask's catch
ModelThrows ==
  /\ pc = "model"
  /\ \E e \in ModelThrowables :
       /\ caught' = e
       /\ TaskReturns(CaughtResult(tasksToRun[ti], outputDir, e), "caught", TRUE)
  /\ UNCHANGED <<inputVars, directVars, configVars, fs, clock, exited, taskName, meshVars, modelName,
                 tasksToRun, runDir, outputDir, tools, steps, validated,
                 renderResult, renderBottomResult, rendererLog>>

\* validate invoked while the model call is still pending
ValidateArtifact_BeforeText ==
  /\ pc = "model"
  /\ validated' = TRUE
  /\ steps' = Append(steps, "validate")
  /\ IF ~existsSync(fs, Join(outputDir, ScadName(tasksToRun[ti])))
     THEN TaskReturns(MissingArtifactResult(tasksToRun[ti], outputDir),
                      "missing_artifact", FALSE)
     ELSE /\ pc' = "render_default"
          /\ UNCHANGED <<ti, results, returnedAt, taskLog>>
  /\ UNCHANGED <<inputVars, directVars, configVars, fs, clock, exited, taskName, meshVars, modelName,
                 tasksToRun, runDir, outputDir, tools, caught, renderResult,
                 renderBottomResult, rendererLog>>

\* task.validate(outputDir) throws and nothing in runTask catches it:
\* runEvaluation ends with the exception
ValidateThrows_Propagates ==
  /\ pc = "validate"
  /\ \E e \in TaskThrowables : EvaluationThrows(CaughtMessage(e))
  /\ UNCHANGED <<inputVars, directVars, configVars, fs, clock, taskName, taskLog>>

\* task.validate(outputDir) throws: runTask's catch
ValidateThrows ==
  /\ pc = "validate"
  /\ validated' = TRUE
  /\ steps' = Append(steps, "validate")
  /\ \E e \in TaskThrowables :
       /\ caught' = e
       /\ TaskReturns(CaughtResult(tasksToRun[ti], outputDir, e), "caught", FALSE)
  /\ UNCHANGED <<inputVars, directVars, configVars, fs, clock, exited, taskName, meshVars, modelName,
                 tasksToRun, runDir, outputDir, tools, renderResult,
                 renderBottomResult, rendererLog>>

\* validate: the artifact check
ValidateArtifact ==
  /\ pc = "validate"
  /\ validated' = TRUE
  /\ steps' = Append(steps, "validate")
  /\ IF ~existsSync(fs, Join(outputDir, ScadName(tasksToRun[ti])))
     THEN TaskReturns(MissingArtifactResult(tasksToRun[ti], outputDir),
                      "missing_artifact", FALSE)
     ELSE /\ pc' = "render_default"
          /\ UNCHANGED <<ti, results, returnedAt, taskLog>>
  /\ UNCHANGED <<inputVars, directVars, configVars, fs, clock, exited, taskName, meshVars, modelName,
                 tasksToRun, runDir, outputDir, tools, caught, renderResult,
                 renderBottomResult, rendererLog>>

\* one entry of the renderer's invocation log
Invocation(view, o, outputFile) ==
  [view |-> view, outputFile |-> outputFile,
   exitedZero |-> (o.kind = "exit" /\ o.exitCode = 0),
   wrote |-> (o.kind = "exit" /\ o.wrote)]

\* a validate that does not render the default view when its png is
\* already there
RenderDefault_SkipsExisting ==
  /\ pc = "render_default"
  /\ \E o \in RenderOutcomes :
     IF existsSync(fs, Join(outputDir, PngName(tasksToRun[ti])))
     THEN /\ pc' = "render_bottom"
          /\ renderResult' = renderOpenSCAD(o)
          /\ UNCHANGED <<fs, rendererLog, ti, results, returnedAt, taskLog>>
     ELSE
       LET task == tasksToRun[ti]
           pngFile == Join(outputDir, PngName(task))
           rr == renderOpenSCAD(o)
       IN /\ fs' = FsAfterRender(fs, o, pngFile)
          /\ rendererLog' = Append(rendererLog, Invocation("default", o, pngFile))
          /\ renderResult' = rr
          /\ IF ~rr.success
             THEN TaskReturns(RenderFailedDefaultResult(task, outputDir, rr),
                              "render_failed_default", FALSE)
             ELSE IF ~existsSync(fs', pngFile)
             THEN TaskReturns(OutputMissingDefaultResult(task, outputDir, rr),
                              "output_missing_default", FALSE)
             ELSE /\ pc' = "render_bottom"
                  /\ UNCHANGED <<ti, results, returnedAt, taskLog>>
  /\ UNCHANGED <<inputVars, directVars, configVars, clock, exited, taskName, meshVars, modelName,
                 tasksToRun, runDir, outputDir, tools, steps, validated,
                 caught, renderBottomResult>>

\* validate: render the default view, then check the render and the png
RenderDefault ==
  /\ pc = "render_default"
  /\ \E o \in RenderOutcomes :
       LET task == tasksToRun[ti]
           pngFile == Join(outputDir, PngName(task))
           rr == renderOpenSCAD(o)
       IN /\ fs' = FsAfterRender(fs, o, pngFile)
          /\ rendererLog' = Append(rendererLog, Invocation("default", o, pngFile))
          /\ renderResult' = rr
          /\ IF ~rr.success
             THEN TaskReturns(RenderFailedDefaultResult(task, outputDir, rr),
                              "render_failed_default", FALSE)
             ELSE IF ~existsSync(fs', pngFile)
             THEN TaskReturns(OutputMissingDefaultResult(task, outputDir, rr),
                              "output_missing_default", FALSE)
             ELSE /\ pc' = "render_bottom"
                  /\ UNCHANGED <<ti, results, returnedAt, taskLog>>
  /\ UNCHANGED <<inputVars, directVars, configVars, clock, exited, taskName, meshVars, modelName,
                 tasksToRun, runDir, outputDir, tools, steps, validated,
                 caught, renderBottomResult>>

\* validate: render the bottom isometric view, check the render and the
\* png, and return
RenderBottom ==
  /\ pc = "render_bottom"
  /\ \E o \in RenderOutcomes :
       LET task == tasksToRun[ti]
           pngBottomFile == Join(outputDir, PngBottomName(task))
           rb == renderOpenSCAD(o)
       IN /\ fs' = FsAfterRender(fs, o, pngBottomFile)
          /\ rendererLog' = Append(rendererLog, Invocation("bottom", o, pngBottomFile))
          /\ renderBottomResult' = rb
          /\ IF ~rb.success
             THEN TaskReturns(RenderFailedBottomResult(task, outputDir, rb),
                              "render_failed_bottom", FALSE)
             ELSE IF ~existsSync(fs', pngBottomFile)
             THEN TaskReturns(OutputMissingBottomResult(task, outputDir, rb),
                              "output_missing_bottom", FALSE)
             ELSE TaskReturns(SuccessResult(task, outputDir, renderResult, rb),
                              "success", FALSE)
  /\ UNCHANGED <<inputVars, directVars, configVars, clock, exited, taskName, meshVars, modelName,
                 tasksToRun, runDir, outputDir, tools, steps, validated,
                 caught, renderResult>>

\* runEvaluation after its loop: the summary, then it returns
RunEvaluationFinish ==
  /\ pc = "task_loop"
  /\ ti > Len(tasksToRun)
  /\ EvaluationReturns
  /\ UNCHANGED <<inputVars, directVars, configVars, fs, clock, taskName, taskLog>>

\* a mesh loop that stops after the first model
RunMeshEvaluationFinish_AfterFirst ==
  /\ pc = "mesh_loop"
  /\ mi > Len(configFile.models) \/ mi > 1
  /\ pc' = "done"
  /\ exited' = IF hasFailures(allResults) THEN <<1>> ELSE <<0>>
  /\ UNCHANGED <<inputVars, directVars, configVars, fs, clock, taskName, meshVars, evalVars, taskVars,
                 taskLog>>

\* runMeshEvaluation after its loop: printSummary, then exit 1 on failures
RunMeshEvaluationFinish ==
  /\ pc = "mesh_loop"
  /\ mi > Len(configFile.models)
  /\ pc' = "done"
  /\ exited' = IF hasFailures(allResults) THEN <<1>> ELSE <<0>>
  /\ UNCHANGED <<inputVars, directVars, configVars, fs, clock, taskName, meshVars, evalVars, taskVars,
                 taskLog>>

Next ==
  \/ Main
  \/ LoadModelsConfig
  \/ RunModelEval
  \/ RunEvaluationStart
  \/ RunTaskStart
  \/ CreateToolsThrows
  \/ ToolWrite
  \/ ModelReturns
  \/ ModelThrows
  \/ ValidateArtifact
  \/ ValidateThrows
  \/ RenderDefault
  \/ RenderBottom
  \/ RunEvaluationFinish
  \/ RunMeshEvaluationFinish

Spec == Init /\ [][Next]_vars

\* the mesh invocations: without a task filter, with a registered one and
\* with an unregistered one
InitMesh ==
  /\ Init
  /\ argv \in {<<"--mesh">>, <<"--mesh", "rivet", "rivet">>, <<"--mesh", "rivet", "bogus">>}

\* a mesh invocation when every awaited operation (model call, render, file
\* operation) returns in the end: some step is taken whenever one can be
SpecFair == InitMesh /\ [][Next]_vars /\ WF_vars(Next)

(* ------------- direct calls of generateRunDirectoryName ---------------- *)

\* the model identifiers passed
NamingModels == Models \cup {"a/b/c", "gpt-4", "/"}

\* the clock ticks at which it is called
NamingClocks == {0, 1, 3601, 40000, 1468800}

\* the variables of the evaluation process, which does not run here
processVars ==
  <<inputVars, configVars, fs, exited, taskName, meshVars, tasksToRun, ti, runDir,
    results, taskVars, taskLog>>

NoProcess ==
  /\ argv = <<>>
  /\ apiKey = FALSE
  /\ configFile = NoConfigFile
  /\ configReads = 0
  /\ meshError = Undefined
  /\ fs = {}
  /\ exited = <<>>
  /\ taskName = Undefined
  /\ mi = 0
  /\ allResults = <<>>
  /\ tasksToRun = <<>>
  /\ ti = 0
  /\ runDir = Undefined
  /\ results = <<>>
  /\ outputDir = Undefined
  /\ tools = Undefined
  /\ steps = <<>>
  /\ validated = FALSE
  /\ caught = NoError
  /\ renderResult = NoRender
  /\ renderBottomResult = NoRender
  /\ returnedAt = Undefined
  /\ rendererLog = <<>>
  /\ taskLog = <<>>

InitNaming ==
  /\ NoProcess
  /\ modelName \in NamingModels
  /\ clock \in NamingClocks
  /\ pc = "naming"
  /\ disk = NoDisk
  /\ tasksDir = NoTasksDir
  /\ calls = <<>>

\* one call of generateRunDirectoryName(modelName); new Date() reads the clock
GenerateRunDirectoryName ==
  /\ pc = "naming"
  /\ Len(calls) < MaxNamingCalls
  /\ calls' = Append(calls, [modelName |-> modelName, clock |-> clock,
                             name |-> generateRunDirectoryName(modelName, Now(clock))])
  /\ UNCHANGED <<processVars, modelName, clock, pc, disk, tasksDir>>

\* time passes, or the caller turns to another model
NamingInputChanges ==
  /\ pc = "naming"
  /\ Len(calls) < MaxNamingCalls
  /\ \E m \in NamingModels, c \in {x \in NamingClocks : x >= clock} :
       /\ <<m, c>> # <<modelName, clock>>
       /\ modelName' = m
       /\ clock' = c
  /\ UNCHANGED <<processVars, pc, disk, tasksDir, calls>>

NextNaming ==
  \/ GenerateRunDirectoryName
  \/ NamingInputChanges

SpecNaming == InitNaming /\ [][NextNaming]_vars

(* ------------- paths ---------------------------------------------------- *)

\* the index of the first '/' of s, 0 if it has none
FirstSlash(s) ==
  IF \E k \in 1..Len(s) : SubSeq(s, k, k) = "/"
  THEN CHOOSE k \in 1..Len(s) :
         /\ SubSeq(s, k, k) = "/"
         /\ \A j \in 1..(k - 1) : SubSeq(s, j, j) # "/"
  ELSE 0

RECURSIVE SplitPath(_)
\* s.split("/")
SplitPath(s) ==
  LET i == FirstSlash(s) IN
    IF i = 0 THEN <<s>>
    ELSE <<SubSeq(s, 1, i - 1)>> \o SplitPath(SubSeq(s, i + 1, Len(s)))

RECURSIVE NormalizeSegments(_, _, _)
\* path.normalize on segments: drop "" and ".", let ".." take back the
\* segment before it; acc is what has been kept so far
NormalizeSegments(segs, acc, absolute) ==
  IF segs = <<>> THEN acc
  ELSE LET seg == Head(segs) IN
    IF seg = "" \/ seg = "."
    THEN NormalizeSegments(Tail(segs), acc, absolute)
    ELSE IF seg = ".."
    THEN IF acc # <<>> /\ acc[Len(acc)] # ".."
         THEN NormalizeSegments(Tail(segs), SubSeq(acc, 1, Len(acc) - 1), absolute)
         ELSE IF absolute
         THEN NormalizeSegments(Tail(segs), acc, absolute)
         ELSE NormalizeSegments(Tail(segs), Append(acc, ".."), absolute)
    ELSE NormalizeSegments(Tail(segs), Append(acc, seg), absolute)

RECURSIVE JoinSegments(_)
\* segs.join("/")
JoinSegments(segs) ==
  IF segs = <<>> THEN ""
  ELSE IF Len(segs) = 1 THEN segs[1]
  ELSE segs[1] \o "/" \o JoinSegments(Tail(segs))

\* path.normalize (of a path without a trailing '/')
Normalize(p) ==
  LET body == JoinSegments(NormalizeSegments(SplitPath(p), <<>>, IsAbsolute(p)))
  IN  IF IsAbsolute(p) THEN "/" \o body
      ELSE IF body = "" THEN "." ELSE body

\* path.join(a, b): the segments are joined with '/' and normalized
PathJoin(a, b) == IF b = "" THEN Normalize(a) ELSE Normalize(a \o "/" \o b)

\* path.dirname of a normalized absolute path
Dirname(p) ==
  LET segs == SplitPath(p) IN
    IF Len(segs) <= 2 THEN "/"
    ELSE JoinSegments(SubSeq(segs, 1, Len(segs) - 1))

(* ------------- the "utf-8" encoding ------------------------------------- *)

HighSurrogates == 55296..56319
LowSurrogates == 56320..57343

RECURSIVE Utf8Encode(_)
\* the bytes of a string given as its UTF-16 code units: an unpaired
\* surrogate is encoded as U+FFFD
Utf8Encode(units) ==
  IF units = <<>> THEN <<>>
  ELSE LET u == Head(units) IN
    IF u < 128 THEN <<u>> \o Utf8Encode(Tail(units))
    ELSE IF u < 2048
    THEN <<192 + (u \div 64), 128 + (u % 64)>> \o Utf8Encode(Tail(units))
    ELSE IF u \in HighSurrogates /\ Len(units) >= 2 /\ units[2] \in LowSurrogates
    THEN LET cp == 65536 + (u - 55296) * 1024 + (units[2] - 56320) IN
           <<240 + (cp \div 262144), 128 + ((cp \div 4096) % 64),
             128 + ((cp \div 64) % 64), 128 + (cp % 64)>>
             \o Utf8Encode(Tail(Tail(units)))
    ELSE IF u \in HighSurrogates \cup LowSurrogates
    THEN <<239, 191, 189>> \o Utf8Encode(Tail(units))
    ELSE <<224 + (u \div 4096), 128 + ((u \div 64) % 64), 128 + (u % 64)>>
           \o Utf8Encode(Tail(units))

RECURSIVE Utf8Decode(_)
\* the UTF-16 code units of the string that bytes decode to
Utf8Decode(bytes) ==
  IF bytes = <<>> THEN <<>>
  ELSE LET b == Head(bytes) IN
    IF b < 128 THEN <<b>> \o Utf8Decode(Tail(bytes))
    ELSE IF b \in 192..223 /\ Len(bytes) >= 2
    THEN <<(b - 192) * 64 + (bytes[2] - 128)>>
           \o Utf8Decode(SubSeq(bytes, 3, Len(bytes)))
    ELSE IF b \in 224..239 /\ Len(bytes) >= 3
    THEN <<(b - 224) * 4096 + (bytes[2] - 128) * 64 + (bytes[3] - 128)>>
           \o Utf8Decode(SubSeq(bytes, 4, Len(bytes)))
    ELSE IF b \in 240..247 /\ Len(bytes) >= 4
    THEN LET cp == (b - 240) * 262144 + (bytes[2] - 128) * 4096
                     + (bytes[3] - 128) * 64 + (bytes[4] - 128)
         IN <<55296 + ((cp - 65536) \div 1024), 56320 + ((cp - 65536) % 1024)>>
              \o Utf8Decode(SubSeq(bytes, 5, Len(bytes)))
    ELSE <<65533>> \o Utf8Decode(Tail(bytes))

(* ------------- fs/promises ---------------------------------------------- *)

RECURSIVE Ancestors(_)
\* the directories above a normalized absolute path
Ancestors(path) ==
  IF Dirname(path) = "/" THEN {"/"}
  ELSE {Dirname(path)} \cup Ancestors(Dirname(path))

\* writeFile after mkdir(dirname(path), {recursive: true})
writeFile_Recursive(d, path, content) ==
  IF path \in d.dirs
  THEN [ok |-> FALSE,
        error |-> [isError |-> TRUE,
                   message |-> "EISDIR: illegal operation on a directory, open '"
                                 \o path \o "'"]]
  ELSE [ok |-> TRUE,
        disk |-> [dirs |-> d.dirs \cup Ancestors(path),
                  files |-> [f \in DOMAIN d.files \cup {path} |->
                               IF f = path THEN Utf8Encode(content)
                               ELSE d.files[f]]]]

\* writeFile with the flag "a": the bytes are added to the file's end
writeFile_Append(d, path, content) ==
  IF path \in d.dirs
  THEN [ok |-> FALSE,
        error |-> [isError |-> TRUE,
                   message |-> "EISDIR: illegal operation on a directory, open '"
                                 \o path \o "'"]]
  ELSE IF Dirname(path) \in DOMAIN d.files
  THEN [ok |-> FALSE,
        error |-> [isError |-> TRUE,
                   message |-> "ENOTDIR: not a directory, open '" \o path \o "'"]]
  ELSE IF Dirname(path) \notin d.dirs
  THEN [ok |-> FALSE,
        error |-> [isError |-> TRUE,
                   message |-> "ENOENT: no such file or directory, open '"
                                 \o path \o "'"]]
  ELSE [ok |-> TRUE,
        disk |-> [dirs |-> d.dirs,
                  files |-> [f \in DOMAIN d.files \cup {path} |->
                               IF f # path THEN d.files[f]
                               ELSE IF path \in DOMAIN d.files
                               THEN d.files[path] \o Utf8Encode(content)
                               ELSE Utf8Encode(content)]]]

\* writeFile(path, content, "utf-8") on disk d: the file is created or
\* replaced; nothing creates the directory it is in
writeFile(d, path, content) ==
  IF path \in d.dirs
  THEN [ok |-> FALSE,
        error |-> [isError |-> TRUE,
                   message |-> "EISDIR: illegal operation on a directory, open '"
                                 \o path \o "'"]]
  ELSE IF Dirname(path) \in DOMAIN d.files
  THEN [ok |-> FALSE,
        error |-> [isError |-> TRUE,
                   message |-> "ENOTDIR: not a directory, open '" \o path \o "'"]]
  ELSE IF Dirname(path) \notin d.dirs
  THEN [ok |-> FALSE,
        error |-> [isError |-> TRUE,
                   message |-> "ENOENT: no such file or directory, open '"
                                 \o path \o "'"]]
  ELSE [ok |-> TRUE,
        disk |-> [dirs |-> d.dirs,
                  files |-> [f \in DOMAIN d.files \cup {path} |->
                               IF f = path THEN Utf8Encode(content)
                               ELSE d.files[f]]]]

\* readFile that resolves to an empty string when it cannot read
readFile_MissingIsEmpty(d, path) ==
  IF path \in DOMAIN d.files
  THEN [ok |-> TRUE, content |-> Utf8Decode(d.files[path])]
  ELSE [ok |-> TRUE, content |-> <<>>]

\* readFile(path, "utf-8") on disk d
readFile(d, path) ==
  IF path \in DOMAIN d.files
  THEN [ok |-> TRUE, content |-> Utf8Decode(d.files[path])]
  ELSE IF path \in d.dirs
  THEN [ok |-> FALSE,
        error |-> [isError |-> TRUE,
                   message |-> "EISDIR: illegal operation on a directory, read"]]
  ELSE [ok |-> FALSE,
        error |-> [isError |-> TRUE,
                   message |-> "ENOENT: no such file or directory, open '"
                                 \o path \o "'"]]

(* ------------- the tools ------------------------------------------------ *)

AbsolutePathError ==
  "Absolute paths are not allowed. Please use relative paths only."

\* the message the tools' catch blocks read off what they caught
ToolCaughtMessage(error) ==
  IF error.isError THEN error.message ELSE "Unknown error occurred"

\* no path counts as absolute
IsAbsolutePath_Never(path) == FALSE

\* isAbsolute(params.path) in the tools
IsAbsolutePath(path) == IsAbsolute(path)

\* createWriteFileTool(workdir).execute(params) on disk d: the result, the
\* disk afterwards and the path handed to writeFile
createWriteFileTool(d, workdir, params) ==
  IF IsAbsolutePath(params.path)
  THEN [result |-> [success |-> FALSE, error |-> AbsolutePathError],
        disk |-> d, touched |-> Undefined]
  ELSE LET absolutePath == PathJoin(workdir, params.path)
           written == writeFile(d, absolutePath, params.content)
       IN IF written.ok
          THEN [result |-> [success |-> TRUE,
                            bytesWritten |-> Len(Utf8Encode(params.content))],
                disk |-> written.disk, touched |-> absolutePath]
          ELSE [result |-> [success |-> FALSE,
                            error |-> "Failed to write file: "
                                        \o ToolCaughtMessage(written.error)],
                disk |-> d, touched |-> absolutePath]

\* createReadFileTool(workdir).execute(params) on disk d: the result and the
\* path handed to readFile
createReadFileTool(d, workdir, params) ==
  IF IsAbsolutePath(params.path)
  THEN [result |-> [content |-> <<>>, error |-> AbsolutePathError],
        touched |-> Undefined]
  ELSE LET absolutePath == PathJoin(workdir, params.path)
           read == readFile(d, absolutePath)
       IN IF read.ok
          THEN [result |-> [content |-> read.content], touched |-> absolutePath]
          ELSE [result |-> [content |-> <<>>,
                            error |-> "Failed to read file: "
                                        \o ToolCaughtMessage(read.error)],
                touched |-> absolutePath]

(* ------------- direct calls of the tools -------------------------------- *)

\* the directory the tools are bound to, and a file next to it
Workdir == "/srv/out"
OutsideFile == "/srv/key"

\* the paths the caller passes
ToolCallPaths ==
  {"a.scad", "./a.scad", "sub", "sub/b.scad", "../key", "/etc/passwd"}

\* the contents the caller passes, as UTF-16 code units: an e acute, a euro
\* sign and an emoji; an unpaired high surrogate and "a"
ToolCallContents == {<<233, 8364, 55357, 56832>>, <<55296, 97>>}

\* the disk when the tools are created: the working directory exists, with
\* or without the subdirectory sub
InitialDisks ==
  {[dirs |-> {"/", "/srv", Workdir} \cup sub,
    files |-> [f \in {OutsideFile} |-> <<107>>]] :
     sub \in {{}, {Join(Workdir, "sub")}}}

InitTools ==
  /\ NoProcess
  /\ modelName = Undefined
  /\ clock = 0
  /\ pc = "tools"
  /\ disk \in InitialDisks
  /\ tasksDir = NoTasksDir
  /\ calls = <<>>

\* one call of the write tool bound to Workdir
WriteFileCall ==
  /\ pc = "tools"
  /\ Len(calls) < MaxToolCalls
  /\ \E path \in ToolCallPaths, content \in ToolCallContents :
       LET w == createWriteFileTool(disk, Workdir, [path |-> path, content |-> content])
       IN /\ disk' = w.disk
          /\ calls' = Append(calls, [tool |-> "write_file", path |-> path,
                                     content |-> content, result |-> w.result,
                                     touched |-> w.touched, before |-> disk])
  /\ UNCHANGED <<processVars, modelName, clock, pc, tasksDir>>

\* one call of the read tool bound to Workdir
ReadFileCall ==
  /\ pc = "tools"
  /\ Len(calls) < MaxToolCalls
  /\ \E path \in ToolCallPaths :
       LET r == createReadFileTool(disk, Workdir, [path |-> path])
       IN calls' = Append(calls, [tool |-> "read_file", path |-> path,
                                  content |-> <<>>, result |-> r.result,
                                  touched |-> r.touched, before |-> disk])
  /\ UNCHANGED <<processVars, modelName, clock, pc, disk, tasksDir>>

NextTools ==
  \/ WriteFileCall
  \/ ReadFileCall

SpecTools == InitTools /\ [][NextTools]_vars

(* ------------- direct calls of the task registry ------------------------ *)

\* the number of files in evals/tasks, and of calls of the registry
MaxTaskFiles == 2
MaxRegistryCalls == 2

\* join(process.cwd(), "evals", "tasks")
TasksDirPath == Join(Join("/app", "evals"), "tasks")

\* a task object as a task file exports it; note tells two objects of the
\* same name apart
Descriptor(name, note) ==
  [name |-> name, description |-> note, type |-> "zero-shot",
   prompt |-> "Create " \o name, createTools |-> "createFilesystemTools",
   validate |-> "validate"]

\* the object r without its property k
Without(r, k) == [x \in DOMAIN r \ {k} |-> r[x]]

\* the values a module exports: an object, a function (which has the
\* properties name and length), null
ObjectExport(r) == [typeof |-> "object", null |-> FALSE, value |-> r]
FunctionExport(name) ==
  [typeof |-> "function", null |-> FALSE, value |-> [name |-> name, length |-> 1]]
NullExport == [typeof |-> "object", null |-> TRUE]

\* a file of the directory: its name, whether importing it throws, and
\* Object.values(module)
TaskFile(file, exports) == [file |-> file, throws |-> FALSE, exports |-> exports]
BrokenFile(file) == [file |-> file, throws |-> TRUE, exports |-> <<>>]

\* the properties the predicate of loadTasks asks for
TaskProperties ==
  {"name", "description", "type", "prompt", "createTools", "validate"}

\* the files explored: the two tasks of the repository, a second task named
\* rivet, a task lacking one property (one file per property), a module of
\* helpers, a module exporting a helper and an incomplete task before its
\* task, a module that fails to load, and a file that is no module
TaskFiles ==
  {TaskFile("001-rivet-zero-shot.ts",
            <<ObjectExport(Descriptor("rivet", "round head rivet"))>>),
   TaskFile("002-trapezoidal-rivet-zero-shot.ts",
            <<ObjectExport(Descriptor("trapezoidal-rivet", "trapezoidal head rivet"))>>),
   TaskFile("003-rivet-few-shot.ts",
            <<ObjectExport(Descriptor("rivet", "another rivet"))>>),
   TaskFile("index.ts", <<FunctionExport("getTask"), NullExport>>),
   TaskFile("005-nut.ts",
            <<FunctionExport("helper"),
              ObjectExport(Without(Descriptor("nut", "draft"), "prompt")),
              ObjectExport(Descriptor("nut", "hex nut"))>>),
   BrokenFile("006-broken.ts"),
   TaskFile("README.md", <<ObjectExport(Descriptor("readme", "not a module"))>>)}
    \cup {TaskFile("004-bolt-no-" \o k \o ".ts",
                   <<ObjectExport(Without(Descriptor("bolt", "no " \o k), k))>>) :
            k \in TaskProperties}

\* the states of evals/tasks: missing, or some files in the order readdir
\* lists them
TaskDirs ==
  {NoTasksDir} \cup
  {[present |-> TRUE, files |-> l] :
     l \in {s \in UNION {[1..n -> TaskFiles] : n \in 0..MaxTaskFiles} :
              \A i, j \in 1..Len(s) : i # j => s[i].file # s[j].file}}

\* the task names asked for
RegistryNames == {"rivet", "bolt"}

\* file.endsWith(suffix)
EndsWith(file, suffix) ==
  /\ Len(file) >= Len(suffix)
  /\ SubSeq(file, Len(file) - Len(suffix) + 1, Len(file)) = suffix

IsTaskFile(f) == EndsWith(f.file, ".ts")

\* the predicate that accepts any object with a name
IsTask_NameOnly(value) ==
  /\ value.typeof = "object"
  /\ ~value.null
  /\ "name" \in DOMAIN value.value

\* the predicate of loadTasks: an object, not null, with the six properties
IsTask(value) ==
  /\ value.typeof = "object"
  /\ ~value.null
  /\ "name" \in DOMAIN value.value
  /\ "description" \in DOMAIN value.value
  /\ "type" \in DOMAIN value.value
  /\ "prompt" \in DOMAIN value.value
  /\ "createTools" \in DOMAIN value.value
  /\ "validate" \in DOMAIN value.value

\* Object.values(module).find(...): the index of the first export that is a
\* task, 0 for undefined
FindTask(exports) ==
  IF \E i \in 1..Len(exports) : IsTask(exports[i])
  THEN CHOOSE i \in 1..Len(exports) :
         IsTask(exports[i]) /\ \A j \in 1..(i - 1) : ~IsTask(exports[j])
  ELSE 0

\* a Map as its entries in insertion order
MapHas(m, key) == \E i \in 1..Len(m) : m[i].key = key
MapIndex(m, key) == CHOOSE i \in 1..Len(m) : m[i].key = key
MapGet(m, key) == m[MapIndex(m, key)].value
MapKeys(m) == [i \in 1..Len(m) |-> m[i].key]

\* Map.prototype.set: a key already present keeps its place and gets the
\* new value
MapSet(m, key, value) ==
  IF MapHas(m, key)
  THEN [m EXCEPT ![MapIndex(m, key)].value = value]
  ELSE Append(m, [key |-> key, value |-> value])

\* the key that names a task by the file it came from
TaskKey_File(file, taskExport) == file

\* the key loadTasks stores a task under
TaskKey(file, taskExport) == taskExport.name

RECURSIVE LoadFrom(_, _, _)
\* the loop of loadTasks from file i on; acc holds the Map, the warnings of
\* console.warn and the files console.error reported
LoadFrom(taskFiles, i, acc) ==
  IF i > Len(taskFiles) THEN acc
  ELSE LET f == taskFiles[i] IN
    IF f.throws
    THEN LoadFrom(taskFiles, i + 1, [acc EXCEPT !.errors = Append(@, f.file)])
    ELSE LET k == FindTask(f.exports) IN
      IF k # 0
      THEN LoadFrom(taskFiles, i + 1,
             [acc EXCEPT !.tasks = MapSet(@, TaskKey(f.file, f.exports[k].value),
                                          f.exports[k].value)])
      ELSE LoadFrom(taskFiles, i + 1,
             [acc EXCEPT !.warnings = Append(@, "No valid task found in " \o f.file)])

\* loadTasks() on the directory dir: it throws when readdir fails
loadTasks(dir) ==
  IF ~dir.present
  THEN [threw |-> TRUE, message |-> "Could not load tasks from " \o TasksDirPath]
  ELSE [threw |-> FALSE,
        value |-> LoadFrom(SelectSeq(dir.files, IsTaskFile), 1,
                           [tasks |-> <<>>, warnings |-> <<>>, errors |-> <<>>])]

\* getTaskNames(), hasTask(name) and getTask(name) of runner.ts, each of
\* which loads the directory again
getTaskNamesIn(dir) ==
  LET tasks == loadTasks(dir) IN
    IF tasks.threw THEN tasks
    ELSE [threw |-> FALSE, value |-> MapKeys(tasks.value.tasks)]

hasTaskIn(dir, name) ==
  LET tasks == loadTasks(dir) IN
    IF tasks.threw THEN tasks
    ELSE [threw |-> FALSE, value |-> MapHas(tasks.value.tasks, name)]

getTaskIn(dir, name) ==
  LET tasks == loadTasks(dir) IN
    IF tasks.threw THEN tasks
    ELSE IF ~MapHas(tasks.value.tasks, name)
    THEN [threw |-> TRUE,
          message |-> "Task \"" \o name \o "\" not found. Available tasks: "
                        \o JoinComma(MapKeys(tasks.value.tasks))]
    ELSE [threw |-> FALSE, value |-> MapGet(tasks.value.tasks, name)]

InitRegistry ==
  /\ NoProcess
  /\ modelName = Undefined
  /\ clock = 0
  /\ pc = "registry"
  /\ disk = NoDisk
  /\ tasksDir \in TaskDirs
  /\ calls = <<>>

\* a call of the registry: what was called, its outcome, and what the
\* loadTasks it ran built
RegistryCall(op, name, result) ==
  /\ pc = "registry"
  /\ Len(calls) < MaxRegistryCalls
  /\ calls' = Append(calls, [op |-> op, name |-> name, result |-> result,
                             loaded |-> loadTasks(tasksDir)])
  /\ UNCHANGED <<processVars, modelName, clock, pc, disk, tasksDir>>

GetTaskNamesCall ==
  RegistryCall("getTaskNames", Undefined, getTaskNamesIn(tasksDir))

HasTaskCall ==
  \E name \in RegistryNames :
    RegistryCall("hasTask", name, hasTaskIn(tasksDir, name))

GetTaskCall ==
  \E name \in RegistryNames :
    RegistryCall("getTask", name, getTaskIn(tasksDir, name))

NextRegistry ==
  \/ GetTaskNamesCall
  \/ HasTaskCall
  \/ GetTaskCall

SpecRegistry == InitRegistry /\ [][NextRegistry]_vars

(* ------------- the registry while evals/tasks changes ------------------- *)

\* the states of evals/tasks as the two task files of the repository come
\* and go
ChangingTaskDirs ==
  {d \in TaskDirs :
     /\ d.present
     /\ \A i \in 1..Len(d.files) :
          d.files[i].file \in {"001-rivet-zero-shot.ts",
                               "002-trapezoidal-rivet-zero-shot.ts"}}

InitRegistryChanging ==
  /\ NoProcess
  /\ modelName = Undefined
  /\ clock = 0
  /\ pc = "registry"
  /\ disk = NoDisk
  /\ tasksDir \in ChangingTaskDirs
  /\ calls = <<>>

\* between two calls of the registry a task file is added to evals/tasks,
\* removed from it or listed elsewhere
TasksDirChanges ==
  /\ pc = "registry"
  /\ Len(calls) < MaxRegistryCalls
  /\ tasksDir' \in ChangingTaskDirs \ {tasksDir}
  /\ UNCHANGED <<processVars, modelName, clock, pc, disk, calls>>

NextRegistryChanging ==
  \/ GetTaskNamesCall
  \/ HasTaskCall
  \/ GetTaskCall
  \/ TasksDirChanges

SpecRegistryChanging == InitRegistryChanging /\ [][NextRegistryChanging]_vars

(* ------------- direct calls of renderOpenSCAD --------------------------- *)

\* the number of calls
MaxRenderCalls == 2

\* what mkdir(dirname(outputFile)) or Bun.spawn can throw: an Error for the
\* directory, an Error for the executable, a value that is no Error
RenderThrowables ==
  {[isError |-> TRUE, at |-> "mkdir",
    message |-> "EACCES: permission denied, mkdir '/srv/out'"],
   [isError |-> TRUE, at |-> "spawn",
    message |-> "Executable not found in $PATH: openscad"],
   [isError |-> FALSE, at |-> "spawn", message |-> "spawn failed"]}

\* what one call can meet: one of the throwables, or a process that exits
\* with a status, 139 being the status of a crash
RenderCallOutcomes ==
  [kind : {"exit"}, exitCode : {0, 1, 139}, stdout : Stdouts \cup {""},
   stderr : Stderrs, wrote : BOOLEAN]
  \cup [kind : {"throw"}, error : RenderThrowables]

InitRender ==
  /\ NoProcess
  /\ modelName = Undefined
  /\ clock = 0
  /\ pc = "render"
  /\ disk = NoDisk
  /\ tasksDir = NoTasksDir
  /\ calls = <<>>

\* one call of renderOpenSCAD(openscadFile, outputFile)
RenderCall ==
  /\ pc = "render"
  /\ Len(calls) < MaxRenderCalls
  /\ \E o \in RenderCallOutcomes :
       calls' = Append(calls, [outcome |-> o, result |-> renderOpenSCAD(o)])
  /\ UNCHANGED <<processVars, modelName, clock, pc, disk, tasksDir>>

NextRender == RenderCall

SpecRender == InitRender /\ [][NextRender]_vars

(* ---------------------------- properties ------------------------------- *)

\* runTask has returned and runEvaluation has pushed its result
TaskEnded == pc = "task_loop" /\ returnedAt # Undefined

\* ... and runTask got as far as validate, which has returned
ValidateEnded == TaskEnded /\ validated /\ caught = NoError

\* the task that runTask ran, and the TaskResult it returned
LastTask == tasksToRun[ti - 1]
LastResult == results[Len(results)]

Rendered(r) == "success" \in DOMAIN r
RenderOk(r) == Rendered(r) /\ r.success
RenderBad(r) == Rendered(r) /\ ~r.success

\* C1: whenever a task evaluation of any model ended with success = false,
\* the process exits with code 1 (single-model mode and mesh mode).
C1_ExitOneWhenATaskFailed ==
  (pc = "done" /\ \E i \in 1..Len(taskLog) : ~taskLog[i].success)
    => exited = <<1>>

\* C2: mesh over two models and one task filter; the first model's
\* evaluation succeeds and the second model's model call throws: the summary
\* is total 2, successful 1, failed 1, the failed list is the second model
\* alone, and the exit code is 1.
C2_MeshScenario ==
  (/\ pc = "done"
   /\ parseArgs(argv).meshMode
   /\ Len(configFile.models) = 2
   /\ configFile.models[1] # configFile.models[2]
   /\ taskName # Undefined
   /\ Len(taskLog) = 2
   /\ taskLog[1].model = configFile.models[1] /\ taskLog[1].success
   /\ taskLog[2].model = configFile.models[2] /\ taskLog[2].threw)
    => LET summary == printSummary(allResults) IN
         /\ summary.total = 2
         /\ summary.successful = 1
         /\ summary.failed = 1
         /\ Len(summary.failedEvaluations) = 1
         /\ summary.failedEvaluations[1].model = configFile.models[2]
         /\ exited = <<1>>

\* C3: when the declared source artifact is absent from the output
\* directory, validate invokes the renderer zero times and returns the
\* MissingArtifact failure: success false, an error, the outputPath, and no
\* metadata.
C3_MissingArtifactNoRender ==
  (ValidateEnded /\ Join(outputDir, ScadName(LastTask)) \notin fs)
    => /\ rendererLog = <<>>
       /\ returnedAt = "missing_artifact"
       /\ DOMAIN LastResult = {"taskName", "success", "error", "outputPath"}
       /\ ~LastResult.success
       /\ Contains(LastResult.error, "file was not created")
       /\ LastResult.outputPath = outputDir

C3_Witness ==
  /\ ValidateEnded
  /\ Join(outputDir, ScadName(LastTask)) \notin fs
  /\ returnedAt = "missing_artifact"

\* C4: with the artifact present, when the default view's render fails, the
\* bottom view's render is never attempted, the result has success false
\* with an error that mentions the default view, and the metadata has no
\* entry for the bottom view.
C4_FirstRenderFailsStopsValidate ==
  (ValidateEnded /\ RenderBad(renderResult))
    => /\ Len(rendererLog) = 1
       /\ rendererLog[1].view = "default"
       /\ renderBottomResult = NoRender
       /\ ~LastResult.success
       /\ Contains(LastResult.error, "default view")
       /\ ~Contains(LastResult.error, "bottom")
       /\ "bottomView" \notin DOMAIN LastResult.metadata

C4_Witness ==
  /\ ValidateEnded
  /\ Join(outputDir, ScadName(LastTask)) \in fs
  /\ RenderBad(renderResult)
  /\ returnedAt = "render_failed_default"

\* C5: when the artifact is present, both renders succeed and both output
\* files exist, the result has success true and no error, and its metadata
\* holds the stdout and stderr of both views and the three paths (source
\* file, default png, bottom png).
C5_SuccessResult ==
  (/\ ValidateEnded
   /\ Join(outputDir, ScadName(LastTask)) \in fs
   /\ RenderOk(renderResult) /\ RenderOk(renderBottomResult)
   /\ Join(outputDir, PngName(LastTask)) \in fs
   /\ Join(outputDir, PngBottomName(LastTask)) \in fs)
    => /\ LastResult.success
       /\ "error" \notin DOMAIN LastResult
       /\ LastResult.metadata.defaultView.stdout = renderResult.stdout
       /\ LastResult.metadata.defaultView.stderr = renderResult.stderr
       /\ LastResult.metadata.bottomView.stdout = renderBottomResult.stdout
       /\ LastResult.metadata.bottomView.stderr = renderBottomResult.stderr
       /\ LastResult.metadata.scadFile = Join(outputDir, ScadName(LastTask))
       /\ LastResult.metadata.pngFile = Join(outputDir, PngName(LastTask))
       /\ LastResult.metadata.pngBottomFile
            = Join(outputDir, PngBottomName(LastTask))

C5_Witness ==
  /\ ValidateEnded
  /\ RenderOk(renderResult) /\ RenderOk(renderBottomResult)
  /\ Join(outputDir, PngBottomName(LastTask)) \in fs
  /\ renderResult.stdout # renderBottomResult.stdout
  /\ LastResult.success

\* the error text of the RenderFailed results of a view, whatever the
\* renderer's failure was
RenderFailedErrors(view) ==
  { (IF view = "default"
     THEN RenderFailedDefaultResult(LastTask, outputDir, renderOpenSCAD(o))
     ELSE RenderFailedBottomResult(LastTask, outputDir, renderOpenSCAD(o))).error :
      o \in {x \in RenderOutcomes : ~renderOpenSCAD(x).success} }

\* C6: for each view, when the render reports success but the view's output
\* file does not exist afterwards, the result has success false with an
\* OutputMissing error, which differs from every RenderFailed error of the
\* same view, and no later view is rendered.
C6_OutputMissingDistinct ==
  \A i \in 1..2 :
    (/\ ValidateEnded
     /\ Len(rendererLog) >= i
     /\ rendererLog[i].exitedZero
     /\ rendererLog[i].outputFile \notin fs)
      => /\ Len(rendererLog) = i
         /\ ~LastResult.success
         /\ Contains(LastResult.error, "PNG file was not generated despite successful render")
         /\ Contains(LastResult.error,
                     IF i = 1 THEN "(default view)" ELSE "(bottom isometric view)")
         /\ LastResult.error \notin RenderFailedErrors(rendererLog[i].view)
         /\ ~Contains(LastResult.error, "Failed to render")

C6_Witness ==
  /\ ValidateEnded
  /\ Len(rendererLog) = 2
  /\ rendererLog[2].exitedZero
  /\ rendererLog[2].outputFile \notin fs
  /\ returnedAt = "output_missing_bottom"

\* C7: whatever the output directory held before, when the renderer exits
\* with status 0 without writing a view's output file, validate ends in
\* OutputMissing for that view, never in Success.
C7_ExitZeroWithoutOutputIsCaught ==
  \A i \in 1..2 :
    (/\ ValidateEnded
     /\ Len(rendererLog) >= i
     /\ rendererLog[i].exitedZero
     /\ ~rendererLog[i].wrote)
      => /\ returnedAt = (IF i = 1 THEN "output_missing_default"
                          ELSE "output_missing_bottom")
         /\ ~LastResult.success

\* C8 as written: when validate ends in RenderFailed at view i, the metadata
\* holds a success flag and the captured stdout and stderr of every view
\* completed before i, and the failing view's stdout and stderr under that
\* view's key (defaultView for i = 1, bottomView for i = 2).
C8_Original ==
  /\ (ValidateEnded /\ returnedAt = "render_failed_default")
       => /\ "defaultView" \in DOMAIN LastResult.metadata
          /\ LastResult.metadata.defaultView.stdout = Get(renderResult, "stdout")
          /\ LastResult.metadata.defaultView.stderr = Get(renderResult, "stderr")
  /\ (ValidateEnded /\ returnedAt = "render_failed_bottom")
       => /\ LastResult.metadata.defaultView.success
          /\ "stdout" \in DOMAIN LastResult.metadata.defaultView
          /\ LastResult.metadata.defaultView.stdout = Get(renderResult, "stdout")
          /\ LastResult.metadata.defaultView.stderr = Get(renderResult, "stderr")
          /\ LastResult.metadata.bottomView.stdout
               = Get(renderBottomResult, "stdout")
          /\ LastResult.metadata.bottomView.stderr
               = Get(renderBottomResult, "stderr")

\* C8 amended: RenderFailed at the default view stores the failing view's
\* stdout and stderr at the top level of the metadata, under no per-view
\* key; RenderFailed at the bottom view stores defaultView with success true
\* and the png path (the default view's stdout and stderr are dropped) and
\* bottomView with success false and the failing view's stdout and stderr.
C8_RenderFailedMetadata ==
  /\ (ValidateEnded /\ RenderBad(renderResult))
       => /\ returnedAt = "render_failed_default"
          /\ DOMAIN LastResult.metadata = {"stdout", "stderr"}
          /\ LastResult.metadata.stdout = Get(renderResult, "stdout")
          /\ LastResult.metadata.stderr = Get(renderResult, "stderr")
  /\ (ValidateEnded /\ RenderBad(renderBottomResult))
       => /\ returnedAt = "render_failed_bottom"
          /\ DOMAIN LastResult.metadata = {"defaultView", "bottomView"}
          /\ LastResult.metadata.defaultView
               = [success |-> TRUE, file |-> Join(outputDir, PngName(LastTask))]
          /\ DOMAIN LastResult.metadata.bottomView = {"success", "stdout", "stderr"}
          /\ ~LastResult.metadata.bottomView.success
          /\ LastResult.metadata.bottomView.stdout
               = Get(renderBottomResult, "stdout")
          /\ LastResult.metadata.bottomView.stderr
               = Get(renderBottomResult, "stderr")

C8_Witness ==
  /\ ValidateEnded
  /\ RenderOk(renderResult)
  /\ RenderBad(renderBottomResult)
  /\ "stdout" \in DOMAIN renderBottomResult
  /\ returnedAt = "render_failed_bottom"

\* C9: every TaskResult, from any terminal state of validate and from
\* runTask's catch block, has error set exactly when success is false.
C9_ErrorIffFailure ==
  \A i \in 1..Len(results) :
    ("error" \in DOMAIN results[i]) <=> ~results[i].success

C9_Witness ==
  /\ Len(results) = 2
  /\ results[1].success
  /\ ~results[2].success
  /\ returnedAt = "caught"

\* C10 as written: when the model client throws or the output directory
\* cannot be created, runTask returns success false, error equal to the
\* exception's message, outputPath equal to outputDir and no metadata, and
\* validate is not invoked and nothing is rendered.
C10_Original ==
  (TaskEnded /\ caught \in ModelThrowables \cup {MkdirError})
    => /\ ~LastResult.success
       /\ LastResult.error = caught.message
       /\ LastResult.outputPath = outputDir
       /\ "metadata" \notin DOMAIN LastResult
       /\ ~validated
       /\ rendererLog = <<>>

\* C10 amended: as C10, with error equal to the exception's message when the
\* thrown value is an Error instance and to "Unknown error" otherwise.
C10_CaughtResult ==
  (TaskEnded /\ caught \in ModelThrowables \cup {MkdirError})
    => /\ returnedAt = "caught"
       /\ ~LastResult.success
       /\ LastResult.error
            = (IF caught.isError THEN caught.message ELSE "Unknown error")
       /\ LastResult.taskName = LastTask
       /\ LastResult.outputPath = outputDir
       /\ LastResult.outputPath = Join(runDir, LastTask)
       /\ "metadata" \notin DOMAIN LastResult
       /\ ~validated
       /\ rendererLog = <<>>

C10_Witness ==
  /\ TaskEnded
  /\ caught \in ModelThrowables
  /\ ~caught.isError
  /\ fs # {}
  /\ LastResult.error = "Unknown error"

\* the steps of runTask's try block, in the order of the code
RunTaskSteps == <<"mkdir", "createTools", "callModel", "getText", "validate">>

\* the TaskResult that validate returned, from what validate saw
ValidateReturned ==
  IF renderResult = NoRender
  THEN MissingArtifactResult(LastTask, outputDir)
  ELSE IF RenderBad(renderResult)
  THEN RenderFailedDefaultResult(LastTask, outputDir, renderResult)
  ELSE IF renderBottomResult = NoRender
  THEN OutputMissingDefaultResult(LastTask, outputDir, renderResult)
  ELSE IF RenderBad(renderBottomResult)
  THEN RenderFailedBottomResult(LastTask, outputDir, renderBottomResult)
  ELSE IF returnedAt = "output_missing_bottom"
  THEN OutputMissingBottomResult(LastTask, outputDir, renderBottomResult)
  ELSE SuccessResult(LastTask, outputDir, renderResult, renderBottomResult)

\* C11: runTask performs its steps in the fixed order mkdir(outputDir),
\* createTools(outputDir), callModel, getText, validate(outputDir): the steps
\* done so far are always a prefix of that order, the tools are bound to
\* outputDir, validate is invoked only after getText has resolved, and the
\* TaskResult that validate returns is the one runTask returns.
C11_RunTaskOrder ==
  /\ steps = SubSeq(RunTaskSteps, 1, Len(steps))
  /\ pc = "model" => (Len(steps) = 3 /\ tools = outputDir)
  /\ pc = "validate" => Len(steps) = 4
  /\ validated <=> Len(steps) = 5
  /\ validated => (steps[4] = "getText" /\ tools = outputDir)
  /\ ValidateEnded => LastResult = ValidateReturned

C11_Witness ==
  /\ ValidateEnded
  /\ steps = RunTaskSteps
  /\ LastResult.success
  /\ "metadata" \in DOMAIN LastResult
  /\ LastResult = ValidateReturned

\* runEvaluation is inside its task loop
InTaskLoop == runDir # Undefined

\* the runTask calls of the evaluation under way, oldest first
RunsOfEvaluation == SubSeq(taskLog, Len(taskLog) - Len(results) + 1, Len(taskLog))

\* results (and the runTask calls behind them) are the first n of tasksToRun
ResultsFollowTasks(n) ==
  /\ Len(results) = n
  /\ Len(taskLog) >= n
  /\ \A i \in 1..n :
       /\ results[i].taskName = tasksToRun[i]
       /\ RunsOfEvaluation[i].task = tasksToRun[i]
       /\ RunsOfEvaluation[i].model = modelName

EvaluationErrors ==
  {"OPENROUTER_API_KEY environment variable is not set", MkdirError.message}
    \cup {"Unknown task: " \o t \o ". Available tasks: " \o JoinComma(getTaskNames) :
            t \in TaskArgs \ {Undefined}}

\* the mesh loop has handled the first n models of the configuration file
MeshResultsFollowModels(n) ==
  /\ Len(allResults) = n
  /\ \A i \in 1..n :
       /\ allResults[i].model = configFile.models[i]
       /\ allResults[i].task = TaskLabel(taskName)
       /\ allResults[i].success <=> "error" \notin DOMAIN allResults[i]
  /\ Len(taskLog)
       = Len(SelectSeq(allResults, IsSuccess)) * Len(TasksOf(taskName))

\* C13: in a mesh run every configured model is evaluated once, in the order
\* of the configuration file, and adds one MeshResult, whether or not an
\* evaluation throws: an evaluation that throws adds a failed MeshResult
\* with the error's message and the loop goes on to the next model, and the
\* mesh ends with as many MeshResults as configured models.
C13_MeshNotAborted ==
  /\ pc = "mesh_loop" => MeshResultsFollowModels(mi - 1)
  /\ (pc \in {"eval", "task_loop", "model", "validate", "render_default",
               "render_bottom"} /\ parseArgs(argv).meshMode)
       => (Len(allResults) = mi - 1 /\ modelName = configFile.models[mi])
  /\ (pc = "done" /\ parseArgs(argv).meshMode /\ configFile.present)
       => MeshResultsFollowModels(Len(configFile.models))
  /\ \A i \in 1..Len(allResults) :
       ~allResults[i].success
         => /\ allResults[i].error \in EvaluationErrors
            /\ ~apiKey => allResults[i].error
                            = "OPENROUTER_API_KEY environment variable is not set"

C13_Witness ==
  /\ pc = "done"
  /\ parseArgs(argv).meshMode
  /\ Len(configFile.models) = 2
  /\ Len(allResults) = 2
  /\ ~allResults[1].success
  /\ allResults[1].error = MkdirError.message
  /\ allResults[2].success

\* the process is suspended on a model call / on a render
ModelCallsInFlight == IF pc = "model" THEN 1 ELSE 0
RendersInFlight == IF pc \in {"render_default", "render_bottom"} THEN 1 ELSE 0

\* C14: evaluations never overlap: at most one model call or render is in
\* flight; a model call begins only from runEvaluation's loop, when every
\* earlier task of the evaluation has returned its TaskResult (validate
\* included); and an evaluation of the mesh begins only from the mesh loop,
\* when every earlier model has its MeshResult and all of its tasks have
\* returned.
C14_NoOverlap ==
  /\ [](ModelCallsInFlight + RendersInFlight <= 1)
  /\ [][(pc # "model" /\ pc' = "model")
          => /\ pc = "task_loop"
             /\ Len(results) = ti - 1
             /\ ti' = ti
             /\ ti > 1 => (TaskEnded /\ Len(rendererLog) <= 2
                            /\ (ValidateEnded <=> returnedAt # "caught"))]_vars
  /\ [][(pc # "eval" /\ pc' = "eval" /\ parseArgs(argv).meshMode)
          => /\ pc = "mesh_loop"
             /\ Len(allResults) = mi - 1
             /\ results = <<>> /\ tasksToRun = <<>>
             /\ Len(taskLog)
                  = Len(SelectSeq(allResults, IsSuccess)) * Len(TasksOf(taskName))]_vars

C14_Witness ==
  /\ pc = "model"
  /\ parseArgs(argv).meshMode
  /\ mi = 2
  /\ Len(allResults) = 1
  /\ allResults[1].success
  /\ Len(taskLog) = 1
  /\ taskLog[1].model = configFile.models[1]

\* C15: any two evaluations of one mesh run that differ in model identifier
\* or in task name use different output directories (runDir/taskName),
\* whatever the models list and the clock.
C15_OwnOutputDirectory ==
  parseArgs(argv).meshMode =>
    \A i, j \in 1..Len(taskLog) :
      (taskLog[i].model # taskLog[j].model \/ taskLog[i].task # taskLog[j].task)
        => taskLog[i].dir # taskLog[j].dir

\* the decimal digits
Digits == {ToString(d) : d \in 0..9}

\* the number written in the characters from..to of s
RECURSIVE NumberAt(_, _, _)
NumberAt(s, from, to) ==
  IF to < from THEN 0
  ELSE 10 * NumberAt(s, from, to - 1)
         + (CHOOSE d \in 0..9 : ToString(d) = SubSeq(s, to, to))

\* name is run-<YYYYMMDD>-<HHMMSS>-<model with every '/' replaced by '-'>
\* for the date and time now
IsRunDirectoryName(name, model, now) ==
  /\ Len(name) = 20 + Len(model)
  /\ SubSeq(name, 1, 4) = "run-"
  /\ \A i \in (5..12) \cup (14..19) : SubSeq(name, i, i) \in Digits
  /\ SubSeq(name, 13, 13) = "-"
  /\ SubSeq(name, 20, 20) = "-"
  /\ NumberAt(name, 5, 8) = now.year
  /\ NumberAt(name, 9, 10) = now.month
  /\ NumberAt(name, 11, 12) = now.day
  /\ NumberAt(name, 14, 15) = now.hours
  /\ NumberAt(name, 16, 17) = now.minutes
  /\ NumberAt(name, 18, 19) = now.seconds
  /\ \A i \in 1..Len(model) :
       SubSeq(name, 20 + i, 20 + i)
         = (IF SubSeq(model, i, i) = "/" THEN "-" ELSE SubSeq(model, i, i))

\* C16: for every model identifier and every clock value the run directory
\* name is run-<YYYYMMDD>-<HHMMSS>-<model with every '/' replaced by '-'>,
\* it contains no '/', and two calls with the same model identifier at the
\* same clock value give the same name.
C16_RunDirectoryName ==
  \A i \in 1..Len(calls) :
    /\ IsRunDirectoryName(calls[i].name, calls[i].modelName, Now(calls[i].clock))
    /\ ~Contains(calls[i].name, "/")
    /\ \A j \in 1..Len(calls) :
         (calls[i].modelName = calls[j].modelName /\ calls[i].clock = calls[j].clock)
           => calls[i].name = calls[j].name

C16_Witness ==
  /\ Len(calls) = 2
  /\ calls[1].modelName = "a/b/c"
  /\ calls[1].name = "run-20260114-110639-a-b-c"
  /\ calls[2] = calls[1]

\* path p lies inside directory w
IsInside(w, p) ==
  p # Undefined /\ Len(p) > Len(w) + 1 /\ SubSeq(p, 1, Len(w) + 1) = w \o "/"

\* the disk as call i left it
DiskAfter(i) == IF i < Len(calls) THEN calls[i + 1].before ELSE disk

IsWrite(i) == calls[i].tool = "write_file"
IsRead(i) == calls[i].tool = "read_file"
WriteSucceeded(i) == IsWrite(i) /\ calls[i].result.success
ReadSucceeded(i) == IsRead(i) /\ "error" \notin DOMAIN calls[i].result

\* C17: a write or a read through a tool bound to W with an absolute path
\* is rejected with an 'Absolute paths are not allowed' error returned as
\* data (write: success false; read: empty content), and the disk is as it
\* was before the call.
C17_AbsolutePathRejected ==
  \A i \in 1..Len(calls) :
    IsAbsolute(calls[i].path)
      => /\ "error" \in DOMAIN calls[i].result
         /\ Contains(calls[i].result.error, "Absolute paths are not allowed")
         /\ IsWrite(i) => /\ ~calls[i].result.success
                          /\ "bytesWritten" \notin DOMAIN calls[i].result
         /\ IsRead(i) => calls[i].result.content = <<>>
         /\ calls[i].touched = Undefined
         /\ DiskAfter(i) = calls[i].before

C17_Witness ==
  /\ Len(calls) = 3
  /\ WriteSucceeded(1)
  /\ IsWrite(2) /\ IsAbsolute(calls[2].path)
  /\ IsRead(3) /\ IsAbsolute(calls[3].path)
  /\ disk = calls[2].before
  /\ disk \notin InitialDisks

\* C18: after any sequence of read and write tool calls on tools bound to W
\* with arbitrary paths, every file created or modified lies inside W and
\* every file whose content was returned lies inside W.
C18_NoEscape ==
  /\ \A i \in 1..Len(calls) :
       (WriteSucceeded(i) \/ ReadSucceeded(i)) => IsInside(Workdir, calls[i].touched)
  /\ \A d \in InitialDisks : \A f \in DOMAIN d.files :
       ~IsInside(Workdir, f) => (f \in DOMAIN disk.files /\ disk.files[f] = d.files[f])
  /\ \A f \in DOMAIN disk.files :
       ~IsInside(Workdir, f) => \E d \in InitialDisks : f \in DOMAIN d.files

\* the successful writes before call i to the file that call i's path
\* resolves to
WritesBefore(i) ==
  {j \in 1..(i - 1) : WriteSucceeded(j) /\ calls[j].touched = calls[i].touched}

\* the most recent of them
LastWriteBefore(i) ==
  CHOOSE j \in WritesBefore(i) : \A k \in WritesBefore(i) : k <= j

RECURSIVE ToWellFormed(_)
\* units with every unpaired surrogate replaced by U+FFFD
ToWellFormed(units) ==
  IF units = <<>> THEN <<>>
  ELSE IF /\ Len(units) >= 2
          /\ units[1] \in HighSurrogates
          /\ units[2] \in LowSurrogates
  THEN <<units[1], units[2]>> \o ToWellFormed(Tail(Tail(units)))
  ELSE IF units[1] \in HighSurrogates \cup LowSurrogates
  THEN <<65533>> \o ToWellFormed(Tail(units))
  ELSE <<units[1]>> \o ToWellFormed(Tail(units))

\* C19 as written: after successful writes through the write tool bound to
\* W, a read of relative path P through the read tool bound to W returns
\* exactly the content of the most recent successful write to P, with no
\* error.
C19_Original ==
  \A i \in 1..Len(calls) :
    (IsRead(i) /\ ~IsAbsolute(calls[i].path) /\ WritesBefore(i) # {})
      => /\ "error" \notin DOMAIN calls[i].result
         /\ calls[i].result.content = calls[LastWriteBefore(i)].content

\* C19 amended: the read returns, with no error, the content of the most
\* recent successful write to the file P resolves to (not a concatenation
\* of earlier writes) with every unpaired surrogate replaced by U+FFFD:
\* exactly that content when it is well-formed Unicode.
C19_RoundTrip ==
  \A i \in 1..Len(calls) :
    (IsRead(i) /\ ~IsAbsolute(calls[i].path) /\ WritesBefore(i) # {})
      => LET written == calls[LastWriteBefore(i)].content IN
           /\ "error" \notin DOMAIN calls[i].result
           /\ calls[i].result.content = ToWellFormed(written)
           /\ (written = ToWellFormed(written)) => calls[i].result.content = written
           /\ calls[LastWriteBefore(i)].result.bytesWritten
                = Len(DiskAfter(i).files[calls[i].touched])

C19_Witness ==
  /\ Len(calls) = 3
  /\ WriteSucceeded(1) /\ calls[1].path = "a.scad"
  /\ calls[1].content = <<55296, 97>>
  /\ WriteSucceeded(2) /\ calls[2].path = "./a.scad"
  /\ calls[2].content = <<233, 8364, 55357, 56832>>
  /\ calls[2].result.bytesWritten = 9
  /\ IsRead(3) /\ calls[3].path = "a.scad"
  /\ calls[3].result.content = <<233, 8364, 55357, 56832>>

\* C20: a write to a relative path under W whose parent directories do not
\* exist yet succeeds, and afterwards those directories and the file exist.
C20_CreatesParentDirectories ==
  \A i \in 1..Len(calls) :
    (/\ IsWrite(i)
     /\ ~IsAbsolute(calls[i].path)
     /\ IsInside(Workdir, PathJoin(Workdir, calls[i].path))
     /\ Dirname(PathJoin(Workdir, calls[i].path)) \notin calls[i].before.dirs)
      => /\ calls[i].result.success
         /\ Dirname(PathJoin(Workdir, calls[i].path)) \in DiskAfter(i).dirs
         /\ PathJoin(Workdir, calls[i].path) \in DOMAIN DiskAfter(i).files

\* the path call i's relative path resolves to
Resolved(i) == PathJoin(Workdir, calls[i].path)

C22_FailuresAreData ==
  \A i \in 1..Len(calls) :
    /\ IsRead(i) =>
         \/ DOMAIN calls[i].result = {"content"}
         \/ /\ DOMAIN calls[i].result = {"content", "error"}
            /\ calls[i].result.content = <<>>
            /\ Len(calls[i].result.error) > 0
    /\ IsWrite(i) =>
         \/ /\ DOMAIN calls[i].result = {"success", "bytesWritten"}
            /\ calls[i].result.success
         \/ /\ DOMAIN calls[i].result = {"success", "error"}
            /\ ~calls[i].result.success
            /\ Len(calls[i].result.error) > 0
    /\ (IsRead(i) /\ ~IsAbsolute(calls[i].path)
          /\ Resolved(i) \notin DOMAIN calls[i].before.files)
         => /\ calls[i].result.content = <<>>
            /\ "error" \in DOMAIN calls[i].result
            /\ Contains(calls[i].result.error, "Failed to read file")

C22_Witness ==
  /\ Len(calls) = 3
  /\ IsRead(1) /\ calls[1].path = "a.scad" /\ ~ReadSucceeded(1)
  /\ IsRead(2) /\ calls[2].path = "sub" /\ ~ReadSucceeded(2)
  /\ Contains(calls[2].result.error, "EISDIR")
  /\ IsWrite(3) /\ calls[3].path = "sub" /\ ~calls[3].result.success

(* ------------- the task registry ---------------------------------------- *)

\* the Map a loadTasks() on the directory dir returns
RegistryOf(dir) == loadTasks(dir).value.tasks

\* call i of the registry ran on a directory it could read
Loaded(i) == ~calls[i].loaded.threw

\* the task names registered when call i ran
KeysAt(i) == {calls[i].loaded.value.tasks[k].key :
                k \in 1..Len(calls[i].loaded.value.tasks)}

\* the files of dir that are modules, load, and export no task
FilesWithoutTask(dir) ==
  {i \in 1..Len(dir.files) :
     /\ IsTaskFile(dir.files[i])
     /\ ~dir.files[i].throws
     /\ FindTask(dir.files[i].exports) = 0}

\* dir without the files at the indices in skip
DirWithout(dir, skip) ==
  LET keep == {i \in 1..Len(dir.files) : i \notin skip}
      nth(n) == CHOOSE i \in keep : Cardinality({j \in keep : j < i}) = n - 1
  IN [present |-> dir.present,
      files |-> [n \in 1..Cardinality(keep) |-> dir.files[nth(n)]]]

\* C23: every key of the registry equals the name of the task stored under
\* it, and for each such key n hasTask(n) is true and getTask(n) returns a
\* task whose name is n; the calls made agree: hasTask and getTask of a
\* registered name answer true and that task, and getTaskNames lists keys
C23_KeysAreNames ==
  /\ tasksDir.present =>
       \A k \in 1..Len(RegistryOf(tasksDir)) :
         LET e == RegistryOf(tasksDir)[k] IN
           /\ e.key = e.value.name
           /\ hasTaskIn(tasksDir, e.key) = [threw |-> FALSE, value |-> TRUE]
           /\ getTaskIn(tasksDir, e.key) = [threw |-> FALSE, value |-> e.value]
           /\ getTaskIn(tasksDir, e.key).value.name = e.key
  /\ \A i \in 1..Len(calls) :
       /\ (Loaded(i) /\ calls[i].op = "hasTask" /\ calls[i].name \in KeysAt(i))
            => calls[i].result = [threw |-> FALSE, value |-> TRUE]
       /\ (Loaded(i) /\ calls[i].op = "getTask" /\ calls[i].name \in KeysAt(i))
            => /\ ~calls[i].result.threw
               /\ calls[i].result.value.name = calls[i].name
       /\ (Loaded(i) /\ calls[i].op = "getTaskNames")
            => /\ ~calls[i].result.threw
               /\ {calls[i].result.value[k] : k \in 1..Len(calls[i].result.value)}
                    = KeysAt(i)

\* with two files that both name their task rivet, hasTask("rivet") is true
\* and getTask("rivet") returns the task of the file listed last
C23_Witness ==
  /\ Len(calls) = 2
  /\ Len(tasksDir.files) = 2
  /\ tasksDir.files[1].file = "001-rivet-zero-shot.ts"
  /\ tasksDir.files[2].file = "003-rivet-few-shot.ts"
  /\ calls[1].op = "hasTask" /\ calls[1].name = "rivet"
  /\ calls[1].result = [threw |-> FALSE, value |-> TRUE]
  /\ calls[2].op = "getTask" /\ calls[2].name = "rivet"
  /\ calls[2].result = [threw |-> FALSE, value |-> Descriptor("rivet", "another rivet")]

\* C24: for a name that is not registered, hasTask answers false and
\* getTask returns without throwing
C24_AbsenceIsSignalled ==
  \A i \in 1..Len(calls) :
    (Loaded(i) /\ calls[i].name # Undefined /\ calls[i].name \notin KeysAt(i))
      => /\ calls[i].op = "hasTask" => calls[i].result = [threw |-> FALSE, value |-> FALSE]
         /\ calls[i].op = "getTask" => ~calls[i].result.threw

ApiKeyMessage == "OPENROUTER_API_KEY environment variable is not set"
UnknownTaskMessage(name) ==
  "Unknown task: " \o name \o ". Available tasks: rivet, trapezoidal-rivet"

\* the names in the registry
Registered == {TaskNames[i] : i \in 1..Len(TaskNames)}

\* nothing of a task has happened: no runTask began, no run directory, no
\* file, no model call, no TaskResult
NoTaskActivity ==
  /\ taskLog = <<>>
  /\ fs = {}
  /\ runDir = Undefined
  /\ tasksToRun = <<>>
  /\ results = <<>>
  /\ steps = <<>>
  /\ outputDir = Undefined
  /\ ModelCallsInFlight = 0
  /\ pc \in {"main", "mesh_start", "mesh_loop", "eval", "done"}

\* C26: without the API credential runEvaluation throws before anything
\* else: no task runs, no run directory is made, no model is called, no
\* TaskResult exists, and the error is the credential's even when the task
\* name is unknown (the task names are not looked at); a single-model run
\* ends with exit code 1
C26_NoCredentialAbortsFirst ==
  ~apiKey =>
    /\ NoTaskActivity
    /\ \A i \in 1..Len(allResults) :
         allResults[i] = MeshFailure(configFile.models[i], taskName, ApiKeyMessage)
    /\ (pc = "done" /\ ~parseArgs(argv).meshMode) => exited = <<1>>

\* a mesh run without the credential for the unknown task bogus: the one
\* model fails with the credential's message
C26_Witness ==
  /\ ~apiKey
  /\ pc = "done"
  /\ taskName = "bogus"
  /\ Len(allResults) = 1
  /\ allResults[1].error = ApiKeyMessage

\* C27: with the credential set and a task name that is not registered,
\* runEvaluation throws the unknown-task error before any task runs, before
\* the run directory is made and before any model call
C27_UnknownTaskAbortsFirst ==
  (apiKey /\ taskName # Undefined /\ taskName \notin Registered) =>
    /\ NoTaskActivity
    /\ \A i \in 1..Len(allResults) :
         allResults[i] = MeshFailure(configFile.models[i], taskName,
                                     UnknownTaskMessage(taskName))
    /\ (pc = "done" /\ ~parseArgs(argv).meshMode) => exited = <<1>>

\* a single-model run of the unknown task bogus with the credential set has
\* ended with exit code 1
C27_Witness ==
  /\ apiKey
  /\ ~parseArgs(argv).meshMode
  /\ taskName = "bogus"
  /\ pc = "done"
  /\ exited = <<1>>

\* the MeshResult r records a configuration failure of runEvaluation
IsConfigurationFailure(r) ==
  /\ ~r.success
  /\ r.error \in {ApiKeyMessage, UnknownTaskMessage(taskName)}

\* C28: once an evaluation of a mesh run has failed for a missing
\* credential or an unknown task name, no later model of the list is
\* evaluated: the failed MeshResult is the last one and runEvaluation is not
\* entered again
C28_ConfigurationFailureAbortsMesh ==
  \A i \in 1..Len(allResults) :
    IsConfigurationFailure(allResults[i])
      => /\ Len(allResults) = i
         /\ pc \in {"mesh_loop", "done"}

\* C29: a run whose task name is not registered ends with exit code 1, in
\* single-model mode and in mesh mode, whatever models-config.json lists
C29_UnknownTaskExitsOne ==
  (pc = "done" /\ taskName # Undefined /\ taskName \notin Registered)
    => exited = <<1>>

\* the first argument of args that is no flag, Undefined if all are flags
FirstPositional(args) ==
  IF \A i \in 1..Len(args) : IsFlag(args[i]) THEN Undefined
  ELSE args[CHOOSE i \in 1..Len(args) :
              ~IsFlag(args[i]) /\ \A j \in 1..(i - 1) : IsFlag(args[j])]

\* C30: started with --mesh and a positional argument, runMeshEvaluation
\* receives that argument as its task name, and every task run is that task
C30_MeshTaskFilter ==
  (/\ parseArgs(argv).meshMode
   /\ FirstPositional(argv) # Undefined
   /\ pc # "main")
    => /\ taskName = FirstPositional(argv)
       /\ \A i \in 1..Len(taskLog) : taskLog[i].task = FirstPositional(argv)

(* ------------- the models configuration --------------------------------- *)

\* a mesh run is past loadModelsConfig
PastLoadModelsConfig ==
  parseArgs(argv).meshMode /\ pc \notin {"main", "mesh_start"}

\* C31: a mesh run reads models-config.json once, before any evaluation and
\* before any MeshResult; when the file is missing or is not JSON,
\* runMeshEvaluation has thrown (for a missing file with the absolute path of
\* the file in the message) with no model evaluated and no MeshResult, and
\* the process has ended with exit code 1
C31_ConfigReadOnceOrFatal ==
  /\ configReads = IF PastLoadModelsConfig THEN 1 ELSE 0
  /\ (PastLoadModelsConfig /\ ~(configFile.present /\ configFile.parses))
       => /\ pc = "done"
          /\ exited = <<1>>
          /\ allResults = <<>>
          /\ mi = 0
          /\ NoTaskActivity
          /\ ~configFile.present
               => /\ meshError = "Models configuration not found at: " \o ConfigPath
                  /\ IsAbsolute(ConfigPath)
          /\ configFile.present
               => meshError = "Failed to load models config: " \o JsonParseMessage
  /\ (PastLoadModelsConfig /\ meshError = Undefined)
       => configFile.present /\ configFile.parses /\ configFile.hasModels

\* a mesh run without models-config.json has ended with exit code 1 after
\* one read
C31_Witness ==
  /\ parseArgs(argv).meshMode
  /\ ~configFile.present
  /\ pc = "done"
  /\ exited = <<1>>
  /\ configReads = 1
  /\ meshError = "Models configuration not found at: /app/models-config.json"

(* ------------- the mesh summary ----------------------------------------- *)

\* the indices of the failed MeshResults of rs
FailedIndices(rs) == {i \in 1..Len(rs) : rs[i].success = FALSE}

\* the index in rs of its k-th failed MeshResult
KthFailed(rs, k) ==
  CHOOSE i \in FailedIndices(rs) :
    Cardinality({j \in FailedIndices(rs) : j < i}) = k - 1

\* runMeshEvaluation has come to its end: every model has its MeshResult
MeshCompleted ==
  parseArgs(argv).meshMode /\ pc = "done" /\ meshError = Undefined

\* C32: when the mesh run has completed, the summary's total is the number
\* of MeshResults (one per model) and the sum of its successful and failed
\* counts, its failed list is the MeshResults with success false in the
\* order they were recorded, and the exit code is 1 if some MeshResult has
\* success false and 0 otherwise
C32_SummaryArithmetic ==
  MeshCompleted =>
    LET summary == printSummary(allResults) IN
      /\ summary.total = Len(allResults)
      /\ summary.total = Len(configFile.models)
      /\ summary.total = summary.successful + summary.failed
      /\ summary.failed = Cardinality(FailedIndices(allResults))
      /\ Len(summary.failedEvaluations) = summary.failed
      /\ \A k \in 1..summary.failed :
           summary.failedEvaluations[k] = allResults[KthFailed(allResults, k)]
      /\ exited = IF FailedIndices(allResults) # {} THEN <<1>> ELSE <<0>>

\* two models: the first evaluation failed, the second succeeded; the
\* summary counts one of each and the exit code is 1
C32_Witness ==
  /\ MeshCompleted
  /\ Len(allResults) = 2
  /\ ~allResults[1].success
  /\ allResults[2].success
  /\ printSummary(allResults).successful = 1
  /\ printSummary(allResults).failedEvaluations = <<allResults[1]>>
  /\ exited = <<1>>

(* ------------- the renders of validate ---------------------------------- *)

\* the views of the renders logged so far, in order
ViewsRendered == [i \in 1..Len(rendererLog) |-> rendererLog[i].view]

\* C33: validate renders each view at most once, the default view before
\* the bottom view, and never again after a failure; when it has returned,
\* it has rendered nothing if the artifact was missing, the default view
\* alone if it ended at the default view (render failed or output missing),
\* and both views otherwise, whatever files the output directory held
C33_RenderCounts ==
  /\ ViewsRendered \in {<<>>, <<"default">>, <<"default", "bottom">>}
  /\ pc = "render_default" => ViewsRendered = <<>>
  /\ pc = "render_bottom" => ViewsRendered = <<"default">>
  /\ ValidateEnded =>
       ViewsRendered =
         (IF returnedAt = "missing_artifact" THEN <<>>
          ELSE IF returnedAt \in {"render_failed_default", "output_missing_default"}
          THEN <<"default">>
          ELSE <<"default", "bottom">>)
  /\ (TaskEnded /\ ~validated) => ViewsRendered = <<>>

\* both pngs were in the output directory before validate (the model wrote
\* them), and validate still rendered both views, neither render writing
\* its file
C33_Witness ==
  /\ ValidateEnded
  /\ returnedAt = "success"
  /\ ViewsRendered = <<"default", "bottom">>
  /\ ~rendererLog[1].wrote
  /\ ~rendererLog[2].wrote

\* C37: a TaskResult with success true comes only from the last return of
\* validate: in that execution the artifact was there, the default view was
\* rendered with exit status 0 and its png was there, then the bottom view
\* was rendered with exit status 0 and its png was there
C37_SuccessOnlyByFullPath ==
  (TaskEnded /\ LastResult.success)
    => /\ validated
       /\ returnedAt = "success"
       /\ caught = NoError
       /\ existsSync(fs, Join(outputDir, ScadName(LastTask)))
       /\ Len(rendererLog) = 2
       /\ rendererLog[1].view = "default"
       /\ rendererLog[1].exitedZero
       /\ RenderOk(renderResult)
       /\ rendererLog[1].outputFile = Join(outputDir, PngName(LastTask))
       /\ existsSync(fs, rendererLog[1].outputFile)
       /\ rendererLog[2].view = "bottom"
       /\ rendererLog[2].exitedZero
       /\ RenderOk(renderBottomResult)
       /\ rendererLog[2].outputFile = Join(outputDir, PngBottomName(LastTask))
       /\ existsSync(fs, rendererLog[2].outputFile)

\* the second task of an evaluation succeeded, both renders having written
\* their png, after the first task failed
C37_Witness ==
  /\ TaskEnded
  /\ Len(results) = 2
  /\ ~results[1].success
  /\ results[2].success
  /\ rendererLog[1].wrote
  /\ rendererLog[2].wrote

(* ------------- the render wrapper --------------------------------------- *)

\* C36: renderOpenSCAD always returns a result: success true with the
\* captured stdout and stderr exactly when the process was spawned and
\* exited with status 0; for another status success false, an error naming
\* the status, and the captured stdout and stderr; when the directory could
\* not be made or the process not spawned, success false, an error, and
\* neither stdout nor stderr
C36_RenderFailuresAreData ==
  \A i \in 1..Len(calls) :
    LET o == calls[i].outcome
        r == calls[i].result
    IN /\ r.success <=> (o.kind = "exit" /\ o.exitCode = 0)
       /\ (o.kind = "exit" /\ o.exitCode = 0)
            => r = [success |-> TRUE, stdout |-> o.stdout, stderr |-> o.stderr]
       /\ (o.kind = "exit" /\ o.exitCode # 0)
            => /\ DOMAIN r = {"success", "error", "stdout", "stderr"}
               /\ Contains(r.error, "exited with code " \o ToString(o.exitCode))
               /\ r.stdout = o.stdout
               /\ r.stderr = o.stderr
       /\ o.kind = "throw"
            => /\ DOMAIN r = {"success", "error"}
               /\ r.error = IF o.error.isError THEN o.error.message
                            ELSE "Unknown error"

\* a call in which the directory could not be made, then one in which the
\* process crashed
C36_Witness ==
  /\ Len(calls) = 2
  /\ calls[1].outcome.kind = "throw"
  /\ calls[1].outcome.error.at = "mkdir"
  /\ calls[1].result = [success |-> FALSE,
                        error |-> "EACCES: permission denied, mkdir '/srv/out'"]
  /\ calls[2].outcome.kind = "exit"
  /\ calls[2].outcome.exitCode = 139
  /\ calls[2].result.error = "OpenSCAD process exited with code 139"

(* ------------- faults inside a task ------------------------------------- *)

\* C38: runTask always returns a TaskResult named after its task, with the
\* caught value's message when mkdir, createTools, the model client or
\* validate threw; no fault of a task leaves runEvaluation: an evaluation
\* that began its task loop runs every task, the errors it throws are those
\* of its own checks and of the run directory, and a single-model run that
\* ran a task ends with exit code 0
C38_RunTaskNeverThrows ==
  /\ TaskEnded =>
       /\ LastResult.taskName = LastTask
       /\ LastResult.outputPath = outputDir
       /\ caught # NoError =>
            /\ returnedAt = "caught"
            /\ LastResult = CaughtResult(LastTask, outputDir, caught)
       /\ caught = NoError => (validated /\ returnedAt # "caught")
  /\ (pc \in {"model", "validate", "render_default", "render_bottom"})
       => (InTaskLoop /\ Len(results) = ti - 1 /\ ti <= Len(tasksToRun))
  /\ ~InTaskLoop => Len(taskLog) % Len(TasksOf(taskName)) = 0
  /\ \A i \in 1..Len(allResults) :
       ~allResults[i].success => allResults[i].error \in EvaluationErrors
  /\ (pc = "done" /\ ~parseArgs(argv).meshMode /\ taskLog # <<>>)
       => (exited = <<0>> /\ Len(taskLog) = Len(TasksOf(taskName)))

\* an evaluation of two tasks: createTools threw in the first, validate
\* threw in the second, and both have their TaskResult
C38_Witness ==
  /\ pc = "task_loop"
  /\ ti > Len(tasksToRun)
  /\ Len(results) = 2
  /\ caught \in TaskThrowables
  /\ validated
  /\ steps = <<"mkdir", "createTools", "callModel", "getText", "validate">>
  /\ results[1] = CaughtResult(tasksToRun[1], Join(runDir, tasksToRun[1]), caught)
  /\ results[2] = CaughtResult(tasksToRun[2], outputDir, caught)

(* ------------- tasks hold no directory ---------------------------------- *)

\* C35: every runTask binds the tools it creates to the output directory it
\* was given and validate looks at that directory alone: while a task runs
\* its tools are bound to runDir/task, every render writes into the
\* directory of its runTask, the TaskResult names that directory, and
\* validate reports a missing artifact exactly when that directory has
\* none, whatever the directories of earlier runs of the same task hold
C35_NoDirectoryBinding ==
  /\ pc \in {"model", "validate", "render_default", "render_bottom"}
       => /\ outputDir = Join(runDir, tasksToRun[ti])
          /\ tools = outputDir
  /\ \A i \in 1..Len(rendererLog) : IsInside(outputDir, rendererLog[i].outputFile)
  /\ TaskEnded =>
       /\ LastResult.outputPath = outputDir
       /\ outputDir = taskLog[Len(taskLog)].dir
  /\ ValidateEnded =>
       (returnedAt = "missing_artifact"
          <=> ~existsSync(fs, Join(outputDir, ScadName(LastTask))))

\* the same task run for two models in two directories: the first run left
\* its artifact in its directory, the second wrote none and validate
\* reported it missing
C35_Witness ==
  /\ Len(taskLog) = 2
  /\ taskLog[1].task = taskLog[2].task
  /\ taskLog[1].dir # taskLog[2].dir
  /\ existsSync(fs, Join(taskLog[1].dir, ScadName(taskLog[1].task)))
  /\ ValidateEnded
  /\ returnedAt = "missing_artifact"
  /\ outputDir = taskLog[2].dir

(* ------------- one registry per evaluation ------------------------------ *)

\* call i accepted the task name n: hasTask(n) answered true, or
\* getTaskNames listed n
Accepted(i, n) ==
  /\ ~calls[i].result.threw
  /\ \/ calls[i].op = "hasTask" /\ calls[i].name = n /\ calls[i].result.value
     \/ /\ calls[i].op = "getTaskNames"
        /\ \E k \in 1..Len(calls[i].result.value) : calls[i].result.value[k] = n

\* C34: the registry is built once: every call of the registry sees the
\* same tasks, and a name that hasTask or getTaskNames accepted is found by
\* every later getTask, even when evals/tasks changes between the calls
C34_RegistryBuiltOnce ==
  \A i, j \in 1..Len(calls) :
    i < j =>
      /\ calls[i].loaded = calls[j].loaded
      /\ (calls[j].op = "getTask" /\ Accepted(i, calls[j].name))
           => ~calls[j].result.threw

(* ------------- termination ---------------------------------------------- *)

\* C39: when every awaited operation returns, a mesh run ends; when it ends
\* past the loading of the configuration it has reached the summary with
\* one MeshResult per configured model, in the order of the configuration,
\* the loop index past the last model, and every evaluation that returned
\* has run each of its tasks once
C39_Termination ==
  /\ <>(pc = "done")
  /\ [](MeshCompleted
          => /\ mi = Len(configFile.models) + 1
             /\ MeshResultsFollowModels(Len(configFile.models))
             /\ modelName = Undefined
             /\ ~InTaskLoop
             /\ exited # <<>>)

\* a mesh run of two models has ended with both evaluations returned and
\* one task run for each
C39_Witness ==
  /\ MeshCompleted
  /\ Len(configFile.models) = 2
  /\ allResults[1].success /\ allResults[2].success
  /\ Len(taskLog) = 2
  /\ exited = <<0>>

====
